---- MODULE Spec2Model ----
(***************************************************************************)
(* Password-Manager: the authentication server (SRP-6a login, TOTP second  *)
(* factor, bearer sessions), the vault storage with master-password        *)
(* rotation, and the browser client's requests.                            *)
(*                                                                         *)
(* Cryptography is symbolic: a derived value is the tuple of what it was   *)
(* derived from, so two values are equal exactly when their inputs are.    *)
(* Each handler is split at the awaits where another request can run.      *)
(***************************************************************************)
EXTENDS Integers, Sequences, FiniteSets, TLC

NULL == "NULL"

\* ---- input alphabets -------------------------------------------------
Usernames == {"alice", "bob"}   \* names a caller may send
RegisterNames == {"alice"}      \* names that get registered
AccountPasswords == {"correcthorse123"}
LoginPasswords == {"correcthorse123", "wrongpassword"}
SrpSalts == {"salt1"}
TotpSecrets == {"JBSWY3DP"}
ClientEphemerals == {"A1"}

\* ---- bounds ----------------------------------------------------------
TicksPerMinute == 3           \* resolution of the server process's clock
MaxChallenges == 2
MaxSessions == 2
MaxTempTokens == 1
MaxInflight == 1
MaxConcurrent == 2           \* requests in flight where a claim is about two
MaxLoginSessions == 3     \* session rows while two logins are in flight

\* ---- program constants -----------------------------------------------
MAX_VERIFIER_LENGTH == 1000
SESSION_WEEKS == 2
expireAfterMinutes == 5       \* tempTokens: expireAfter 1000 * 60 * 5
intervalMinutes == 1          \* tempTokens: intervalTime 1000 * 60

VARIABLES
    users,        \* table users: sequence of rows, row id = index
    sessions,     \* table user_sessions: set of rows
    nextSession,  \* identity column of user_sessions / next session token
    srpSessions,  \* in-memory map username -> pending SRP handshake
    issued,       \* challenges the server has answered (what clients saw),
                  \* each with the clock value of its answer
    tempTokens,   \* in-memory map temp token -> user id, each entry
                  \* with the clock value of its set()
    nextTemp,     \* next temp token
    loginReqs,    \* /auth/login requests waiting after getUserByUsername
    verifyReqs,   \* /auth/verify-2fa requests waiting for getUser
    now,          \* database clock, in weeks
    lastResp,     \* the response sent last
    consumed      \* history: login bodies that used up a handshake since
                  \* the last challenge for their username

\* every variable of the authentication server but the response
authFrame == <<users, sessions, nextSession, srpSessions, issued, tempTokens,
               nextTemp, loginReqs, verifyReqs, now, consumed>>

authVars == <<users, sessions, nextSession, srpSessions, issued, tempTokens,
              nextTemp, loginReqs, verifyReqs, now, lastResp, consumed>>

VARIABLES
    vaults,       \* table vaults: sequence of rows, row id = index
    vaultAccess,  \* table vault_access: set of rows
    passwords,    \* table passwords as other connections see it
    nextPassword, \* identity column of passwords
    txns,         \* update-master-password requests inside their transaction
    tabs,         \* vault page state of each tracked browser tab
    otherKeys,    \* vault keys held by the browser's other tabs
    localToken    \* localStorage 'token' of the browser, 0 when absent

storeVars == <<vaults, vaultAccess, passwords, nextPassword, txns, tabs,
               otherKeys, localToken>>

VARIABLES
    wire          \* the requests the client's last operation sent

VARIABLES
    reqs,         \* requests inside the server: in the onRequest hook or
                  \* on their way to the route handler
    served        \* the request the server dealt with last, and how

httpVars == <<reqs, served>>

VARIABLES
    clock         \* the server process's clock while a temp token is stored,
                  \* in ticks; the phase of the sweep timer otherwise

VARIABLES
    nameReqs      \* /auth/register and /auth/username requests waiting after
                  \* their getUserByUsername

\* the variables only single routes' specifications move
restVars == <<clock, nameReqs>>

vars == <<authVars, storeVars, wire, httpVars, restVars>>

\* ---- symbolic cryptography -------------------------------------------

\* login/page.tsx pbkdf2Derive: PBKDF2-SHA256, 10000 iterations, hex
pbkdf2Derive(password, salt) == <<"pbkdf2", password, salt>>

\* secure-remote-password client deriveVerifier(privateKey)
deriveVerifier(privateKey) == <<"verifier", privateKey>>

\* secure-remote-password server generateEphemeral(verifier): B = k*v + g^b
generateEphemeral(verifier, b) ==
    [secret |-> b, public |-> <<"B", b, verifier>>]

\* the session key the client computes from (a, B, x)
ClientKey(A, B, privateKey) ==
    [A |-> A, b |-> B[2], v |-> deriveVerifier(privateKey), Bv |-> B[3]]

\* the session key the server computes from (b, A, v)
ServerKey(b, A, verifier) ==
    [A |-> A, b |-> b, v |-> verifier, Bv |-> verifier]

\* secure-remote-password client deriveSession(a, B, salt, username, x)
ClientDeriveSession(A, B, salt, username, privateKey) ==
    [key   |-> ClientKey(A, B, privateKey),
     proof |-> [I |-> username, s |-> salt, A |-> A,
                K |-> ClientKey(A, B, privateKey)]]

\* the proof M1 the server expects for its own (b, A, salt, username, v)
ExpectedProof(b, A, salt, username, verifier) ==
    [I |-> username, s |-> salt, A |-> A, K |-> ServerKey(b, A, verifier)]

\* a deriveSession that accepts every proof
ServerDeriveSessionAny(b, A, salt, username, verifier, clientProof) == TRUE

\* secure-remote-password server deriveSession: throws unless the client
\* proof equals the expected one
ServerDeriveSessionOk(b, A, salt, username, verifier, clientProof) ==
    clientProof = ExpectedProof(b, A, salt, username, verifier)

\* the code otplib generates from a secret
TotpCode(secret) == <<"totp", secret>>

\* a verify that accepts every code
authenticatorVerifyAny(token, secret) == TRUE

\* otplib authenticator.verify({token, secret}): the code is the one
\* generated from that secret
authenticatorVerify(token, secret) == token = TotpCode(secret)

\* ---- helpers ---------------------------------------------------------

isValidLength(len, maxLength) == len <= maxLength

\* database.ts getUserByUsername: first row with that username, 0 if none
getUserByUsername(username) ==
    LET ids == {i \in 1..Len(users) : users[i].username = username}
    IN  IF ids = {} THEN 0 ELSE CHOOSE i \in ids : \A j \in ids : i <= j

\* a getUserSession without "AND s.expires_at > NOW()"
getUserSessionAnyTime(token) == {s \in sessions : s.token = token}

\* database.ts getUserSession: the row with that token that has not expired
getUserSession(token) ==
    {s \in sessions : s.token = token /\ s.expires_at > now}

\* database.ts createSession: expires_at = NOW() + 2 weeks
NewSessionRow(userId, token) ==
    [id |-> token, user_id |-> userId, token |-> token,
     expires_at |-> now + SESSION_WEEKS]

\* a store that keeps the earlier entry of the username beside the new one
SrpAdd(username, entry) == srpSessions \cup {entry}

\* srpSessions[username] = entry: a later entry replaces the earlier one
SrpPut(username, entry) ==
    {e \in srpSessions : e.username # username} \cup {entry}

\* a delete that leaves the entry in the map
SrpKeep(username) == srpSessions

\* delete srpSessions[username]
SrpDelete(username) == {e \in srpSessions : e.username # username}

\* middleware/auth.ts authMiddleware on a protected route: the id of the
\* user the bearer token authenticates, 0 when the request is answered 401
authMiddleware(token) ==
    LET found == getUserSession(token)
    IN  IF found = {} THEN 0
        ELSE LET session == CHOOSE s \in found : TRUE
             IN  IF session.user_id \in 1..Len(users)
                 THEN session.user_id ELSE 0

TotpCodes == {TotpCode(s) : s \in TotpSecrets} \cup {<<"totp", "000000">>}

\* secrets and codes when the caller has a second authenticator
TwoTotpSecrets == TotpSecrets \cup {"KRSXG5DF"}
TwoTotpCodes == {TotpCode(s) : s \in TwoTotpSecrets} \cup {<<"totp", "000000">>}

Inflight == Cardinality(loginReqs) + Cardinality(verifyReqs)

\* the connection a new request arrives on: one that carries no request
FreeConnection ==
    CHOOSE c \in 1..MaxConcurrent :
        /\ \A q \in loginReqs : q.conn # c
        /\ \A q \in verifyReqs : q.conn # c

\* a response; fields a route does not send keep their defaults
Resp(route, username, status, error) ==
    [route |-> route, username |-> username, status |-> status,
     error |-> error, server_proof |-> FALSE, token |-> 0,
     requires_2fa |-> FALSE, temp_token |-> 0, uid |-> 0]

\* ---- initial state ---------------------------------------------------
AuthInit ==
    /\ users = <<>>
    /\ sessions = {}
    /\ nextSession = 1
    /\ srpSessions = {}
    /\ issued = <<>>
    /\ tempTokens = {}
    /\ nextTemp = 1
    /\ loginReqs = {}
    /\ verifyReqs = {}
    /\ now = 0
    /\ lastResp = [route |-> "none", username |-> NULL, status |-> 0,
                   error |-> NULL, server_proof |-> FALSE, token |-> 0,
                   requires_2fa |-> FALSE, temp_token |-> 0, uid |-> 0]
    /\ consumed = {}

\* ---- POST /auth/register ---------------------------------------------
RegisterUpTo(username, password, salt, cap) ==
    /\ nextSession <= cap
    /\ IF getUserByUsername(username) # 0
       THEN /\ lastResp' = Resp("register", username, 400,
                                "Username already exists")
            /\ UNCHANGED <<users, sessions, nextSession>>
       ELSE /\ users' = Append(users,
                   [username |-> username, srp_salt |-> salt,
                    srp_verifier |-> deriveVerifier(pbkdf2Derive(password, salt)),
                    totp_secret |-> NULL])
            /\ sessions' = sessions \cup
                   {NewSessionRow(Len(users) + 1, nextSession)}
            /\ nextSession' = nextSession + 1
            /\ lastResp' = [Resp("register", username, 200, NULL)
                               EXCEPT !.token = nextSession,
                                      !.uid = Len(users) + 1]
    /\ UNCHANGED <<srpSessions, issued, tempTokens, nextTemp, loginReqs,
                   verifyReqs, now, consumed>>

Register(username, password, salt) ==
    RegisterUpTo(username, password, salt, MaxSessions)

\* ---- POST /auth/register and PUT /auth/username, await by await ------
NameConnections == {"c1", "c2"}     \* each carries one request at a time

\* init.sql: users.username is VARCHAR(255) NOT NULL and nothing more, so
\* INSERT and UPDATE take every name
UsernameConstraint(username) == TRUE

\* length checks and `await server.db.getUserByUsername(username)`
RegisterCheck(conn, username, password, salt) ==
    /\ \A q \in nameReqs : q.conn # conn
    /\ IF getUserByUsername(username) # 0
       THEN /\ lastResp' = Resp("register", username, 400,
                                "Username already exists")
            /\ UNCHANGED nameReqs
       ELSE /\ nameReqs' = nameReqs \cup
                   {[conn |-> conn, route |-> "register", uid |-> 0,
                     username |-> username, srp_salt |-> salt,
                     srp_verifier |->
                         deriveVerifier(pbkdf2Derive(password, salt))]}
            /\ UNCHANGED lastResp
    /\ UNCHANGED <<users, sessions, nextSession, srpSessions, issued,
                   tempTokens, nextTemp, loginReqs, verifyReqs, now, consumed>>
    /\ UNCHANGED <<storeVars, wire, httpVars, clock>>

\* the continuation: db.createUser, db.createSession, the token
RegisterInsert(r) ==
    /\ r \in nameReqs
    /\ r.route = "register"
    /\ nextSession <= MaxSessions
    /\ nameReqs' = nameReqs \ {r}
    /\ IF UsernameConstraint(r.username)
       THEN /\ users' = Append(users,
                   [username |-> r.username, srp_salt |-> r.srp_salt,
                    srp_verifier |-> r.srp_verifier, totp_secret |-> NULL])
            /\ sessions' = sessions \cup
                   {NewSessionRow(Len(users) + 1, nextSession)}
            /\ nextSession' = nextSession + 1
            /\ lastResp' = [Resp("register", r.username, 200, NULL)
                               EXCEPT !.token = nextSession,
                                      !.uid = Len(users) + 1]
       ELSE /\ lastResp' = Resp("register", r.username, 500,
                                "Internal Server Error")
            /\ UNCHANGED <<users, sessions, nextSession>>
    /\ UNCHANGED <<srpSessions, issued, tempTokens, nextTemp, loginReqs,
                   verifyReqs, now, consumed>>
    /\ UNCHANGED <<storeVars, wire, httpVars, clock>>

\* PUT /auth/username up to updateUsername's getUserByUsername
UsernameCheck(conn, bearer, username) ==
    LET uid == authMiddleware(bearer)
        existingUser == getUserByUsername(username)
    IN
    /\ \A q \in nameReqs : q.conn # conn
    /\ uid # 0
    /\ IF existingUser # 0 /\ existingUser # uid
       THEN /\ lastResp' = [Resp("username", username, 400,
                                 "Username already exists")
                               EXCEPT !.uid = uid]
            /\ UNCHANGED nameReqs
       ELSE /\ nameReqs' = nameReqs \cup
                   {[conn |-> conn, route |-> "username", uid |-> uid,
                     username |-> username, srp_salt |-> NULL,
                     srp_verifier |-> NULL]}
            /\ UNCHANGED lastResp
    /\ UNCHANGED <<users, sessions, nextSession, srpSessions, issued,
                   tempTokens, nextTemp, loginReqs, verifyReqs, now, consumed>>
    /\ UNCHANGED <<storeVars, wire, httpVars, clock>>

\* the continuation: UPDATE users SET username = $1 WHERE id = $2
UsernameWrite(r) ==
    /\ r \in nameReqs
    /\ r.route = "username"
    /\ nameReqs' = nameReqs \ {r}
    /\ IF UsernameConstraint(r.username)
       THEN /\ users' = [users EXCEPT ![r.uid].username = r.username]
            /\ lastResp' = [Resp("username", r.username, 200, NULL)
                               EXCEPT !.uid = r.uid]
       ELSE /\ lastResp' = [Resp("username", r.username, 500,
                                 "Internal Server Error")
                               EXCEPT !.uid = r.uid]
            /\ UNCHANGED users
    /\ UNCHANGED <<sessions, nextSession, srpSessions, issued, tempTokens,
                   nextTemp, loginReqs, verifyReqs, now, consumed>>
    /\ UNCHANGED <<storeVars, wire, httpVars, clock>>

\* ---- POST /auth/srp-challenge ----------------------------------------
SrpChallenge(username) ==
    /\ Len(issued) < MaxChallenges
    /\ LET uid == getUserByUsername(username)
       IN  IF uid = 0
           THEN /\ lastResp' = Resp("srp-challenge", username, 401,
                                    "Invalid credentials")
                /\ UNCHANGED <<srpSessions, issued, consumed>>
           ELSE LET user == users[uid]
                    serverEphemeral ==
                        generateEphemeral(user.srp_verifier, Len(issued) + 1)
                IN  /\ srpSessions' = SrpPut(username,
                           [username |-> username,
                            serverPublicKey |-> serverEphemeral.public,
                            serverPrivateKey |-> serverEphemeral.secret,
                            userId |-> uid])
                    /\ issued' = Append(issued,
                           [username |-> username, salt |-> user.srp_salt,
                            server_public_key |-> serverEphemeral.public,
                            at |-> now])
                    /\ lastResp' = [Resp("srp-challenge", username, 200, NULL)
                                       EXCEPT !.uid = uid]
                    /\ consumed' = {b \in consumed : b.username # username}
    /\ UNCHANGED <<users, sessions, nextSession, tempTokens, nextTemp,
                   loginReqs, verifyReqs, now>>

\* ---- POST /auth/login ------------------------------------------------

\* login/page.tsx handleSubmit steps 2-4: the body the client sends for a
\* challenge answer (salt, B) and a typed password
ClientLoginBody(username, A, challenge, password, proofLen) ==
    [username |-> username, client_public_key |-> A,
     client_proof |-> ClientDeriveSession(A, challenge.server_public_key,
                          challenge.salt, username,
                          pbkdf2Derive(password, challenge.salt)).proof,
     proof_len |-> proofLen]

\* what a client that was refused a challenge can still make up
NoChallenge == [salt |-> NULL, server_public_key |-> <<"B", 0, NULL>>]

\* the challenges the server has answered for a username
ChallengesSeen(username) ==
    {[salt |-> issued[i].salt,
      server_public_key |-> issued[i].server_public_key] :
        i \in {j \in 1..Len(issued) : issued[j].username = username}}

\* the bodies callers send: the page's answer to a challenge it was given,
\* and bodies made up without one, of usual and of excessive length
LoginBodies ==
    UNION {{ClientLoginBody(u, A, c, p, 64) :
                A \in ClientEphemerals, c \in ChallengesSeen(u),
                p \in LoginPasswords} : u \in Usernames}
    \cup {ClientLoginBody(u, "A1", NoChallenge, "wrongpassword", len) :
                u \in Usernames, len \in {64, 1001}}

\* length checks and `await server.db.getUserByUsername(username)`
LoginArrive(body, limit) ==
    /\ Inflight < limit
    /\ IF ~isValidLength(body.proof_len, MAX_VERIFIER_LENGTH)
       THEN /\ lastResp' = Resp("login", body.username, 400,
                                "Client proof too long")
            /\ UNCHANGED loginReqs
       ELSE LET uid == getUserByUsername(body.username)
            IN  IF uid = 0
                THEN /\ lastResp' = Resp("login", body.username, 401,
                                         "Invalid credentials")
                     /\ UNCHANGED loginReqs
                ELSE /\ loginReqs' = loginReqs \cup
                            {[body |-> body, uid |-> uid, user |-> users[uid],
                              conn |-> FreeConnection]}
                     /\ UNCHANGED lastResp
    /\ UNCHANGED <<users, sessions, nextSession, srpSessions, issued,
                   tempTokens, nextTemp, verifyReqs, now, consumed>>

LoginStart(body) == LoginArrive(body, MaxInflight)

\* `const has2FA = !!user.totp_secret`
has2FA(user) == user.totp_secret # NULL

\* history: body has now been checked against the handshake of its username
Consume(body) ==
    {b \in consumed : b.username # body.username} \cup {body}

\* the continuation after the user row has arrived: handshake lookup,
\* deriveSession, cleanup, second-factor gate, session issuance
LoginVerify(r) ==
    LET username == r.body.username
        found == {e \in srpSessions : e.username = username}
    IN
    /\ r \in loginReqs
    /\ loginReqs' = loginReqs \ {r}
    /\ IF found = {}
       THEN /\ lastResp' = [Resp("login", username, 401,
                                 "No active SRP challenge")
                               EXCEPT !.uid = r.uid]
            /\ UNCHANGED <<srpSessions, tempTokens, nextTemp, sessions,
                           nextSession, consumed>>
       ELSE LET session == CHOOSE e \in found : TRUE
            IN  IF ~ServerDeriveSessionOk(session.serverPrivateKey,
                        r.body.client_public_key, r.user.srp_salt, username,
                        r.user.srp_verifier, r.body.client_proof)
                THEN /\ srpSessions' = SrpDelete(username)
                     /\ consumed' = Consume(r.body)
                     /\ lastResp' = [Resp("login", username, 401,
                                          "Invalid credentials")
                                        EXCEPT !.uid = r.uid]
                     /\ UNCHANGED <<tempTokens, nextTemp, sessions,
                                    nextSession>>
                ELSE /\ srpSessions' = SrpDelete(username)
                     /\ consumed' = Consume(r.body)
                     /\ IF has2FA(r.user)
                        THEN /\ nextTemp <= MaxTempTokens
                             /\ tempTokens' = tempTokens \cup
                                    {[token |-> nextTemp, userId |-> r.uid,
                                      at |-> clock]}
                             /\ nextTemp' = nextTemp + 1
                             /\ lastResp' = [Resp("login", username, 200, NULL)
                                    EXCEPT !.server_proof = TRUE,
                                           !.requires_2fa = TRUE,
                                           !.temp_token = nextTemp,
                                           !.uid = r.uid]
                             /\ UNCHANGED <<sessions, nextSession>>
                        ELSE /\ nextSession <= MaxSessions
                             /\ sessions' = sessions \cup
                                    {NewSessionRow(r.uid, nextSession)}
                             /\ nextSession' = nextSession + 1
                             /\ lastResp' = [Resp("login", username, 200, NULL)
                                    EXCEPT !.server_proof = TRUE,
                                           !.token = nextSession,
                                           !.uid = r.uid]
                             /\ UNCHANGED <<tempTokens, nextTemp>>
    /\ UNCHANGED <<users, issued, verifyReqs, now>>

\* ---- POST /auth/login of routes/users.ts, await by await -------------

\* a request whose createSession is under way carries the token it stored
Stored(r) == "token" \in DOMAIN r

\* the continuation after the user row has arrived: handshake lookup,
\* deriveSession, generateSessionToken and `await createSession`; a wrong
\* proof is answered from the catch block, which deletes the handshake
LoginDerive(r) ==
    LET username == r.body.username
        found == {e \in srpSessions : e.username = username}
    IN
    /\ r \in loginReqs
    /\ ~Stored(r)
    /\ IF found = {}
       THEN /\ loginReqs' = loginReqs \ {r}
            /\ lastResp' = [Resp("login", username, 401,
                                 "No active SRP challenge")
                               EXCEPT !.uid = r.uid]
            /\ UNCHANGED <<srpSessions, sessions, nextSession, consumed>>
       ELSE LET session == CHOOSE e \in found : TRUE
            IN  IF ~ServerDeriveSessionOk(session.serverPrivateKey,
                        r.body.client_public_key, r.user.srp_salt, username,
                        r.user.srp_verifier, r.body.client_proof)
                THEN /\ loginReqs' = loginReqs \ {r}
                     /\ srpSessions' = SrpDelete(username)
                     /\ consumed' = Consume(r.body)
                     /\ lastResp' = [Resp("login", username, 401,
                                          "Invalid credentials")
                                        EXCEPT !.uid = r.uid]
                     /\ UNCHANGED <<sessions, nextSession>>
                ELSE /\ nextSession <= MaxLoginSessions
                     /\ sessions' = sessions \cup
                            {NewSessionRow(r.uid, nextSession)}
                     /\ nextSession' = nextSession + 1
                     /\ loginReqs' = (loginReqs \ {r}) \cup
                            {[body |-> r.body, uid |-> r.uid, user |-> r.user,
                              conn |-> r.conn, token |-> nextSession]}
                     /\ UNCHANGED <<srpSessions, consumed, lastResp>>
    /\ UNCHANGED <<users, issued, tempTokens, nextTemp, verifyReqs, now>>

\* the continuation after createSession: `delete srpSessions[username]`
\* and the reply with server proof and token
LoginReply(r) ==
    /\ r \in loginReqs
    /\ Stored(r)
    /\ loginReqs' = loginReqs \ {r}
    /\ srpSessions' = SrpDelete(r.body.username)
    /\ consumed' = Consume(r.body)
    /\ lastResp' = [Resp("login", r.body.username, 200, NULL)
                       EXCEPT !.server_proof = TRUE,
                              !.token = r.token,
                              !.uid = r.uid]
    /\ UNCHANGED <<users, sessions, nextSession, issued, tempTokens,
                   nextTemp, verifyReqs, now>>

\* ---- PUT /auth/password ----------------------------------------------
NewPasswords == {"newpassword456"}
NewSalts == {"salt2"}               \* srp.generateSalt() of the settings page

\* an update that writes the salt and leaves the verifier
updateSrpSaltOnly(userId, srpSalt, srpVerifier) ==
    [users EXCEPT ![userId].srp_salt = srpSalt]

\* database.ts updateSrpCredentials: one UPDATE that sets both columns
updateSrpCredentials(userId, srpSalt, srpVerifier) ==
    [users EXCEPT ![userId].srp_salt = srpSalt,
                  ![userId].srp_verifier = srpVerifier]

\* the settings page's handlePasswordUpdate (fresh salt, verifier of the new
\* password under it) and the route: length checks, updateSrpCredentials
PasswordUpdate(bearer, newPassword, salt, verifierLen) ==
    LET uid == authMiddleware(bearer)
    IN
    /\ uid # 0
    /\ IF ~isValidLength(verifierLen, MAX_VERIFIER_LENGTH)
       THEN /\ lastResp' = [Resp("password", users[uid].username, 400,
                                 "Verifier too long")
                               EXCEPT !.uid = uid]
            /\ UNCHANGED users
       ELSE /\ users' = updateSrpCredentials(uid, salt,
                            deriveVerifier(pbkdf2Derive(newPassword, salt)))
            /\ lastResp' = [Resp("password", users[uid].username, 200, NULL)
                               EXCEPT !.uid = uid]
    /\ UNCHANGED <<sessions, nextSession, srpSessions, issued, tempTokens,
                   nextTemp, loginReqs, verifyReqs, now, consumed>>

\* settings/page.tsx handlePasswordUpdate: the form's three fields are
\* tested (none empty, new = confirm, at least 8 characters; a failed test
\* shows an error and sends nothing), then salt and verifier of the new
\* password are generated and PUT; currentPassword goes nowhere else
handlePasswordUpdate(bearer, currentPassword, newPassword, salt) ==
    /\ currentPassword # ""
    /\ PasswordUpdate(bearer, newPassword, salt, 64)

\* the login bodies of a caller who knows the old and the new password
PasswordLoginBodies ==
    UNION {{ClientLoginBody(u, A, c, p, 64) :
                A \in ClientEphemerals, c \in ChallengesSeen(u),
                p \in AccountPasswords \cup NewPasswords} : u \in Usernames}

\* ---- POST /auth/verify-2fa -------------------------------------------

\* `tempTokens.get(temp_token)` and `await server.db.getUser(...)`
VerifyArrive(temp_token, totp_code, limit) ==
    /\ Inflight < limit
    /\ LET found == {e \in tempTokens : e.token = temp_token}
       IN  IF found = {}
           THEN /\ lastResp' = Resp("verify-2fa", NULL, 401,
                                    "Invalid or expired token")
                /\ UNCHANGED verifyReqs
           ELSE /\ verifyReqs' = verifyReqs \cup
                       {[temp_token |-> temp_token, totp_code |-> totp_code,
                         userId |-> (CHOOSE e \in found : TRUE).userId,
                         conn |-> FreeConnection]}
                /\ UNCHANGED lastResp
    /\ UNCHANGED <<users, sessions, nextSession, srpSessions, issued,
                   tempTokens, nextTemp, loginReqs, now, consumed>>

VerifyStart(temp_token, totp_code) ==
    VerifyArrive(temp_token, totp_code, MaxInflight)

\* tempTokens.delete(temp_token)
TempDelete(temp_token) == {e \in tempTokens : e.token # temp_token}

\* the user row arrives: secret check, code check, cleanup, session
VerifyComplete(r, cap) ==
    /\ r \in verifyReqs
    /\ verifyReqs' = verifyReqs \ {r}
    /\ LET user == users[r.userId]
       IN  IF user.totp_secret = NULL
           THEN /\ tempTokens' = TempDelete(r.temp_token)
                /\ lastResp' = [Resp("verify-2fa", user.username, 400,
                                     "2FA is not enabled for this user")
                                   EXCEPT !.uid = r.userId]
                /\ UNCHANGED <<sessions, nextSession>>
           ELSE IF ~authenticatorVerify(r.totp_code, user.totp_secret)
           THEN /\ lastResp' = [Resp("verify-2fa", user.username, 401,
                                     "Invalid verification code")
                                   EXCEPT !.uid = r.userId]
                /\ UNCHANGED <<tempTokens, sessions, nextSession>>
           ELSE /\ nextSession <= cap
                /\ tempTokens' = TempDelete(r.temp_token)
                /\ sessions' = sessions \cup
                       {NewSessionRow(r.userId, nextSession)}
                /\ nextSession' = nextSession + 1
                /\ lastResp' = [Resp("verify-2fa", user.username, 200, NULL)
                                   EXCEPT !.token = nextSession,
                                          !.uid = r.userId]
    /\ UNCHANGED <<users, srpSessions, issued, nextTemp, loginReqs, now,
                   consumed>>

VerifyFinish(r) == VerifyComplete(r, MaxSessions)

\* ---- the SuperMap holding the temp tokens -----------------------------
expireAfter == expireAfterMinutes * TicksPerMinute
intervalTime == intervalMinutes * TicksPerMinute

\* an entry that is never taken for expired
NeverExpired(e, t) == FALSE

\* the sweep's test of an entry at time t
Expired(e, t) == t - e.at >= expireAfter

\* the interval timer: every intervalTime the entries set expireAfter or
\* longer ago are deleted; get() is Map.prototype.get and looks at no date
sweep(t) == {e \in tempTokens : ~Expired(e, t)}

\* a tick of the server process's clock, with the sweep when the interval
\* has elapsed; while no temp token is stored nothing depends on the time
\* but the phase of the timer, and only the phase is kept
TickClock ==
    LET t == IF tempTokens = {} THEN (clock + 1) % intervalTime
             ELSE clock + 1
    IN  /\ clock' = t
        /\ tempTokens' = IF t % intervalTime = 0 THEN sweep(t) ELSE tempTokens
        /\ UNCHANGED <<users, sessions, nextSession, srpSessions, issued,
                       nextTemp, loginReqs, verifyReqs, now, lastResp,
                       consumed>>
        /\ UNCHANGED <<storeVars, wire, httpVars, nameReqs>>

\* ---- POST /auth/2fa/enable, /auth/2fa/disable ------------------------

\* database.ts setTotpSecret / removeTotpSecret
setTotpSecret(userId, secret) ==
    [users EXCEPT ![userId].totp_secret = secret]

Enable2FA(bearer, secret, token) ==
    LET uid == authMiddleware(bearer)
    IN
    /\ uid # 0
    /\ IF ~authenticatorVerify(token, secret)
       THEN /\ lastResp' = [Resp("2fa/enable", users[uid].username, 400,
                                 "Invalid verification code")
                               EXCEPT !.uid = uid]
            /\ UNCHANGED users
       ELSE /\ users' = setTotpSecret(uid, secret)
            /\ lastResp' = [Resp("2fa/enable", users[uid].username, 200, NULL)
                               EXCEPT !.uid = uid]
    /\ UNCHANGED <<sessions, nextSession, srpSessions, issued, tempTokens,
                   nextTemp, loginReqs, verifyReqs, now, consumed>>

Disable2FA(bearer, token) ==
    LET uid == authMiddleware(bearer)
    IN
    /\ uid # 0
    /\ IF users[uid].totp_secret = NULL
       THEN /\ lastResp' = [Resp("2fa/disable", users[uid].username, 400,
                                 "2FA is not enabled")
                               EXCEPT !.uid = uid]
            /\ UNCHANGED users
       ELSE IF ~authenticatorVerify(token, users[uid].totp_secret)
       THEN /\ lastResp' = [Resp("2fa/disable", users[uid].username, 400,
                                 "Invalid verification code")
                               EXCEPT !.uid = uid]
            /\ UNCHANGED users
       ELSE /\ users' = setTotpSecret(uid, NULL)
            /\ lastResp' = [Resp("2fa/disable", users[uid].username, 200, NULL)
                               EXCEPT !.uid = uid]
    /\ UNCHANGED <<sessions, nextSession, srpSessions, issued, tempTokens,
                   nextTemp, loginReqs, verifyReqs, now, consumed>>

\* ======================================================================
\* Vault storage (database.ts), vault routes (vaults.ts), vault page
\* ======================================================================

\* ---- input alphabets -------------------------------------------------
Tabs == {"tab1"}
MasterPasswords == {"hunter22", "hunter23"}
VaultSalts == {"vsalt1"}
TwoVaultSalts == {"vsalt1", "vsalt2"}   \* where two vaults are created
VaultNames == {"Personal"}
RandomIvs == {"iv1"}          \* what crypto.randomBytes(16) may return
Websites == {"https://a.com", "https://b.com"}
\* what the user may type into the record form (PasswordForm.tsx formData)
RecordForms ==
    {[username |-> "jane", website |-> w, password |-> "s3cret",
      totpSecret |-> "GEZDGNBV", notes |-> "pin 1234"] : w \in Websites}
\* the form the tabs of the storage model save
RecordForm == CHOOSE f \in RecordForms : f.website = "https://a.com"
FieldLengths == {32, 1001}           \* byte lengths a caller may send

\* ---- bounds ----------------------------------------------------------
MaxRecords == 2

\* ---- program constants -----------------------------------------------
MAX_STR_LENGTH == 1000

NoKey == <<>>

\* ---- symbolic cryptography and encodings -----------------------------

\* vault page deriveKey: pbkdf2Sync(password, salt, 100000, 32, 'sha512')
deriveKey(password, salt) == <<"key", password, salt>>

\* buffer.toString('hex') and Buffer.from(hex, 'hex')
toHex(bytes) == <<"hex", bytes>>
fromHex(hex) == hex[2]

\* a JSON.stringify that leaves the notes out
stringifyWithoutNotes(data) == <<"json", [data EXCEPT !.notes = ""]>>

\* JSON.stringify(data) of a record form
stringify(data) == <<"json", data>>

\* userData.id.toString()
idToString(n) == <<"str", n>>

\* createCipheriv('aes-256-cbc', key, iv): update + final
aesEncrypt(key, iv, plaintext) ==
    [key |-> key, iv |-> iv, plaintext |-> plaintext]

\* createDecipheriv('aes-256-cbc', key, iv): final() throws unless the
\* data was encrypted under that key and iv
aesDecrypts(key, iv, data) == data.key = key /\ data.iv = iv

\* vault page encryptUserId: `${iv hex}:${ciphertext hex}`
encryptUserId(userId, key, iv) ==
    [ivHex |-> toHex(iv), encryptedHex |-> toHex(aesEncrypt(key, iv, userId))]

\* a check that passes every key
verifyAnyKey(encryptedUserId, userId, key) == TRUE

\* vault page verifyEncryptedUserId
verifyEncryptedUserId(encryptedUserId, userId, key) ==
    LET iv == fromHex(encryptedUserId.ivHex)
        encrypted == fromHex(encryptedUserId.encryptedHex)
    IN  /\ aesDecrypts(key, iv, encrypted)
        /\ encrypted.plaintext = userId

\* ---- database.ts -----------------------------------------------------

\* a lookup that takes any account's row of the vault
getVaultAccessOfAnyone(vaultId, userId) ==
    {a \in vaultAccess : a.vault_id = vaultId}

\* getVaultAccess: the vault_access rows of that vault and user
getVaultAccess(vaultId, userId) ==
    {a \in vaultAccess : a.vault_id = vaultId /\ a.user_id = userId}

\* the owner check of updateMasterPassword
ownerAccess(vaultId, userId) ==
    {a \in getVaultAccess(vaultId, userId) : a.role = "OWNER"}

RowsOf(vaultId) == {r \in passwords : r.vault_id = vaultId}

\* what DELETE FROM vaults leaves of a row: its id, which is not given again
DeletedVault ==
    [name |-> NULL, master_password_salt |-> NULL,
     encrypted_user_id |-> [ivHex |-> <<>>, encryptedHex |-> <<>>]]
Deleted(row) == row.name = NULL

\* getVault: SELECT * FROM vaults WHERE id = $1, as a sequence of rows
getVault(id) ==
    IF id \in 1..Len(vaults) /\ ~Deleted(vaults[id]) THEN <<vaults[id]>>
    ELSE <<>>

RECURSIVE SortRows(_)
SortRows(rows) ==
    IF rows = {} THEN <<>>
    ELSE LET first == CHOOSE r \in rows : \A q \in rows : r.id <= q.id
         IN  <<first>> \o SortRows(rows \ {first})

\* getVaultPasswords: SELECT * FROM passwords WHERE vault_id = $1
getVaultPasswords(table, vaultId) ==
    SortRows({r \in table : r.vault_id = vaultId})

\* rows after UPDATE passwords SET data, iv WHERE id AND vault_id for each
\* write
ApplyWrites(rows, writes) ==
    {IF \E w \in writes : w.id = r.id /\ w.vault_id = r.vault_id
     THEN LET w == CHOOSE x \in writes : x.id = r.id /\ x.vault_id = r.vault_id
          IN  [r EXCEPT !.data = w.data, !.iv = w.iv]
     ELSE r : r \in rows}

\* what a statement inside an open transaction leaves for other
\* connections to read, without BEGIN: the written table
DirtyVisible(committed, written) == written

\* what a statement inside an open transaction leaves for other
\* connections to read, after BEGIN and before COMMIT: the committed table
UncommittedVisible(committed, written) == committed

\* row locks held by open transactions
VaultLocked(vaultId, except) ==
    \E t \in txns \ except : t.vaultId = vaultId /\ t.step >= 1
RecordLocked(id, except) ==
    \E t \in txns \ except : \E w \in t.wRecs : w.id = id

\* ---- vaults.ts -------------------------------------------------------

\* the user GET /auth/me answers for the browser's token, 0 on 401
Me == authMiddleware(localToken)

VaultResp(route, status, error) == Resp(route, NULL, status, error)

\* GET /vaults/:id/passwords response body
ListResponse(table, vaultId) ==
    LET rows == getVaultPasswords(table, vaultId)
    IN  [i \in 1..Len(rows) |->
            [id |-> rows[i].id, encryptedData |-> toHex(rows[i].data),
             iv |-> rows[i].iv]]

\* the page's state after mount: useState(true) for isUnlocking, no key,
\* no list, decryptedData {} (kept as the ids it has entries for), settings
\* view closed; idle is the whole minutes since the user's last input
ClosedTab ==
    [loaded |-> FALSE, vaultId |-> 0, salt |-> NULL,
     encryptedUserId |-> [ivHex |-> <<>>, encryptedHex |-> <<>>],
     key |-> NoKey, passwords |-> <<>>,
     isUnlocking |-> TRUE, decryptedData |-> {},
     isSettingsOpen |-> FALSE, idle |-> 0]

\* the loops that fill decryptedData: an entry for every listed record
\* that decrypts under the key
DecryptedIds(key, list) ==
    {list[i].id : i \in {j \in 1..Len(list) :
        aesDecrypts(key, fromHex(list[j].iv), fromHex(list[j].encryptedData))}}

\* the tab has a request to update-master-password in flight
Busy(tab) == \E t \in txns : t.tab = tab

StoreInit ==
    /\ vaults = <<>>
    /\ vaultAccess = {}
    /\ passwords = {}
    /\ nextPassword = 1
    /\ txns = {}
    /\ tabs = [t \in Tabs |-> ClosedTab]
    /\ otherKeys = {}
    /\ localToken = 0

\* ---- layout.tsx register form ----------------------------------------
ClientRegister(username, password, salt) ==
    /\ Register(username, password, salt)
    /\ localToken' = IF lastResp'.status = 200 THEN lastResp'.token
                     ELSE localToken
    /\ UNCHANGED <<vaults, vaultAccess, passwords, nextPassword, txns, tabs,
                   otherKeys, wire, httpVars, restVars>>

\* ---- vaults/page.tsx handleSubmitVault, POST /vaults ------------------
ClientCreateVault(name, master, salt, iv, len) ==
    \* crypto.randomBytes(16): a salt no vault has yet
    /\ \A v \in 1..Len(vaults) : vaults[v].master_password_salt # salt
    /\ IF Me = 0
       THEN /\ lastResp' = VaultResp("me", 401, "Unauthorized")
            /\ UNCHANGED <<vaults, vaultAccess>>
       ELSE IF ~isValidLength(len, MAX_STR_LENGTH)
       THEN /\ lastResp' = [VaultResp("vaults", 400,
                                      "Encrypted user ID too long")
                               EXCEPT !.uid = Me]
            /\ UNCHANGED <<vaults, vaultAccess>>
       ELSE LET key == deriveKey(master, salt)
                encryptedUserId == encryptUserId(idToString(Me), key, iv)
            IN  /\ vaults' = Append(vaults,
                       [name |-> name, master_password_salt |-> salt,
                        encrypted_user_id |-> encryptedUserId])
                /\ vaultAccess' = vaultAccess \cup
                       {[vault_id |-> Len(vaults) + 1, user_id |-> Me,
                         role |-> "OWNER"]}
                /\ lastResp' = [VaultResp("vaults", 200, NULL)
                                   EXCEPT !.uid = Me]
    /\ UNCHANGED <<passwords, nextPassword, txns, tabs, localToken,
                   otherKeys>>
    /\ UNCHANGED <<authFrame, wire, httpVars, restVars>>

\* ---- vault page loadVault, GET /vaults/:id ----------------------------
ClientLoadVault(tab, vaultId) ==
    /\ ~Busy(tab)
    /\ IF Me = 0
       THEN /\ lastResp' = VaultResp("vaults/:id", 401, "Unauthorized")
            /\ UNCHANGED tabs
       ELSE IF getVaultAccess(vaultId, Me) = {}
       THEN /\ lastResp' = [VaultResp("vaults/:id", 403, "Access denied")
                               EXCEPT !.uid = Me]
            /\ UNCHANGED tabs
       ELSE /\ tabs' = [tabs EXCEPT ![tab] =
                   [loaded |-> TRUE, vaultId |-> vaultId,
                    salt |-> vaults[vaultId].master_password_salt,
                    encryptedUserId |-> vaults[vaultId].encrypted_user_id,
                    key |-> NoKey, passwords |-> <<>>,
                    isUnlocking |-> TRUE, decryptedData |-> {},
                    isSettingsOpen |-> FALSE, idle |-> 0]]
            /\ lastResp' = [VaultResp("vaults/:id", 200, NULL)
                               EXCEPT !.uid = Me]
    /\ UNCHANGED <<vaults, vaultAccess, passwords, nextPassword, txns,
                   localToken, otherKeys>>
    /\ UNCHANGED <<authFrame, wire, httpVars, restVars>>

\* ---- vault page handleUnlock + verifyAndLoadPasswords -----------------
ClientUnlock(tab, master) ==
    LET page == tabs[tab]
        key == deriveKey(master, page.salt)
    IN
    /\ page.loaded
    /\ ~Busy(tab)
    /\ IF Me = 0
       THEN /\ lastResp' = VaultResp("me", 401, "Unauthorized")
            /\ UNCHANGED tabs
       ELSE IF ~verifyEncryptedUserId(page.encryptedUserId, idToString(Me), key)
       THEN /\ lastResp' = [VaultResp("me", 200, NULL) EXCEPT !.uid = Me]
            /\ UNCHANGED tabs
       ELSE IF getVaultAccess(page.vaultId, Me) = {}
       THEN /\ lastResp' = [VaultResp("passwords", 403, "Access denied")
                               EXCEPT !.uid = Me]
            /\ UNCHANGED tabs
       ELSE /\ tabs' = [tabs EXCEPT
                   ![tab].key = key,
                   ![tab].passwords = ListResponse(passwords, page.vaultId),
                   ![tab].isUnlocking = FALSE,
                   ![tab].idle = 0,
                   ![tab].decryptedData =
                       DecryptedIds(key, ListResponse(passwords, page.vaultId))]
            /\ lastResp' = [VaultResp("passwords", 200, NULL)
                               EXCEPT !.uid = Me]
    /\ UNCHANGED <<vaults, vaultAccess, passwords, nextPassword, txns,
                   localToken, otherKeys>>
    /\ UNCHANGED <<authFrame, wire, httpVars, restVars>>

\* ---- vault page handleLockVault ---------------------------------------
\* the Lock button of the unlocked page and the auto-lock timer
handleLockVault(tab) ==
    /\ ~tabs[tab].isUnlocking
    /\ tabs' = [tabs EXCEPT ![tab].key = NoKey, ![tab].passwords = <<>>,
                            ![tab].isUnlocking = TRUE,
                            ![tab].decryptedData = {}]
    /\ UNCHANGED <<vaults, vaultAccess, passwords, nextPassword, txns,
                   localToken, otherKeys>>
    /\ UNCHANGED <<authVars, wire, httpVars, restVars>>

\* ---- vault page automatic locking -------------------------------------
TIMEOUT_MINUTES == 5
MaxIdle == 6          \* minutes without input that are counted

\* the effect's condition: listeners and the one-second interval exist
\* while the page is unlocked and the settings view is closed
IntervalActive(tab) ==
    /\ tabs[tab].loaded
    /\ ~tabs[tab].isUnlocking
    /\ ~tabs[tab].isSettingsOpen

PageFrame ==
    /\ UNCHANGED <<vaults, vaultAccess, passwords, nextPassword, txns,
                   localToken, otherKeys>>
    /\ UNCHANGED <<authVars, wire, httpVars, restVars>>

\* mousedown, keydown or scroll on the unlocked page
PageActivity(tab) ==
    /\ tabs[tab].loaded
    /\ ~tabs[tab].isUnlocking
    /\ tabs[tab].idle # 0
    /\ tabs' = [tabs EXCEPT ![tab].idle = 0]
    /\ PageFrame

\* the Settings button: setIsSettingsOpen(true); the effect's cleanup
\* removes the listeners and clears the interval
OpenSettings(tab) ==
    /\ IntervalActive(tab)
    /\ tabs' = [tabs EXCEPT ![tab].isSettingsOpen = TRUE, ![tab].idle = 0]
    /\ PageFrame

\* the Back button: setIsSettingsOpen(false); the effect runs again and
\* calls resetAutoLockTimer
CloseSettings(tab) ==
    /\ tabs[tab].loaded
    /\ ~tabs[tab].isUnlocking
    /\ tabs[tab].isSettingsOpen
    /\ tabs' = [tabs EXCEPT ![tab].isSettingsOpen = FALSE, ![tab].idle = 0]
    /\ PageFrame

\* a minute without input passes on the unlocked page; while the interval
\* exists its callback has run before the minute after the timeout begins
MinutePasses(tab) ==
    /\ tabs[tab].loaded
    /\ ~tabs[tab].isUnlocking
    /\ tabs[tab].idle < MaxIdle
    /\ IntervalActive(tab) => tabs[tab].idle < TIMEOUT_MINUTES
    /\ tabs' = [tabs EXCEPT ![tab].idle = @ + 1]
    /\ PageFrame

\* a lock while the page waits for no response
ClientLock(tab) ==
    /\ ~Busy(tab)
    /\ handleLockVault(tab)

\* the interval's callback: remaining <= 0 locks, otherwise only the
\* countdown shown is updated
checkAutoLock(tab) ==
    /\ IntervalActive(tab)
    /\ IF TIMEOUT_MINUTES - tabs[tab].idle <= 0
       THEN handleLockVault(tab)
       ELSE UNCHANGED vars

\* ---- vault page handleSavePassword ------------------------------------
\* POST /vaults/:id/passwords (id = 0) or PUT /vaults/:id/passwords/:id,
\* then GET /vaults/:id/passwords to refresh the list
Ids(list) == {list[i].id : i \in 1..Len(list)}

\* POST /vaults/:id/passwords (id = 0) and PUT /vaults/:id/passwords/:id
SavePasswordRoute(vaultId, id, body, len) ==
    /\ id = 0 => nextPassword <= MaxRecords
    /\ IF Me = 0
       THEN /\ lastResp' = VaultResp("passwords", 401, "Unauthorized")
            /\ UNCHANGED <<passwords, nextPassword>>
       ELSE IF ~isValidLength(len, MAX_STR_LENGTH)
       THEN /\ lastResp' = [VaultResp("passwords", 400, "IV too long")
                               EXCEPT !.uid = Me]
            /\ UNCHANGED <<passwords, nextPassword>>
       ELSE IF getVaultAccess(vaultId, Me) = {}
       THEN /\ lastResp' = [VaultResp("passwords", 403, "Access denied")
                               EXCEPT !.uid = Me]
            /\ UNCHANGED <<passwords, nextPassword>>
       ELSE IF id = 0
       THEN \* createPassword
            /\ passwords' = passwords \cup
                   {[id |-> nextPassword, vault_id |-> vaultId,
                     data |-> fromHex(body.encryptedData), iv |-> body.iv]}
            /\ nextPassword' = nextPassword + 1
            /\ lastResp' = [VaultResp("passwords", 200, NULL)
                               EXCEPT !.uid = Me]
       ELSE IF id \notin {r.id : r \in RowsOf(vaultId)}
       THEN /\ lastResp' = [VaultResp("passwords", 404, "Password not found")
                               EXCEPT !.uid = Me]
            /\ UNCHANGED <<passwords, nextPassword>>
       ELSE \* updatePassword waits for a row lock held by a transaction
            /\ ~RecordLocked(id, {})
            /\ passwords' = ApplyWrites(passwords,
                   {[id |-> id, vault_id |-> vaultId,
                     data |-> fromHex(body.encryptedData), iv |-> body.iv]})
            /\ lastResp' = [VaultResp("passwords", 200, NULL)
                               EXCEPT !.uid = Me]
            /\ UNCHANGED nextPassword

\* handleSavePassword: the body the page sends for a record form
SaveBody(key, iv, data) ==
    [encryptedData |-> toHex(aesEncrypt(key, iv, stringify(data))),
     iv |-> toHex(iv)]

\* handleSavePassword for the form data: encrypt, POST or PUT, GET the list
ClientSaveForm(tab, id, iv, len, data) ==
    LET page == tabs[tab]
    IN
    /\ page.key # NoKey
    /\ ~Busy(tab)
    /\ id = 0 \/ id \in Ids(page.passwords)
    /\ SavePasswordRoute(page.vaultId, id, SaveBody(page.key, iv, data), len)
    /\ tabs' = IF lastResp'.status = 200
               THEN [tabs EXCEPT
                        ![tab].passwords =
                            ListResponse(passwords', page.vaultId),
                        ![tab].decryptedData =
                            DecryptedIds(page.key,
                                ListResponse(passwords', page.vaultId))]
               ELSE tabs
    /\ UNCHANGED <<vaults, vaultAccess, txns, localToken, otherKeys>>
    /\ UNCHANGED <<authFrame, wire, httpVars, restVars>>

ClientSavePassword(tab, id, iv, len) ==
    ClientSaveForm(tab, id, iv, len, RecordForm)

\* JSON.parse(text)
parse(text) == text[2]

\* the page's decryption of a listed record (decryptPassword and the loops
\* of verifyAndLoadPasswords and handleSavePassword): the parsed plaintext
\* with the record's id, nothing when decipher.final() throws
DecryptedRecord(key, password) ==
    LET iv == fromHex(password.iv)
        encryptedData == fromHex(password.encryptedData)
    IN  IF aesDecrypts(key, iv, encryptedData)
        THEN <<[data |-> parse(encryptedData.plaintext), id |-> password.id]>>
        ELSE <<>>

\* ---- the browser's other tabs on the vault page -----------------------
\* only the key an other tab holds after unlocking is tracked

OtherTabUnlock(vaultId, master) ==
    LET key == deriveKey(master, vaults[vaultId].master_password_salt)
    IN
    /\ Me # 0
    /\ getVaultAccess(vaultId, Me) # {}
    /\ verifyEncryptedUserId(vaults[vaultId].encrypted_user_id,
                             idToString(Me), key)
    /\ otherKeys' = otherKeys \cup {[vaultId |-> vaultId, key |-> key]}
    /\ lastResp' = [VaultResp("passwords", 200, NULL) EXCEPT !.uid = Me]
    /\ UNCHANGED <<vaults, vaultAccess, passwords, nextPassword, txns, tabs,
                   localToken>>
    /\ UNCHANGED <<authFrame, wire, httpVars, restVars>>

OtherTabSavePassword(held, id, iv) ==
    /\ held \in otherKeys
    /\ SavePasswordRoute(held.vaultId, id, SaveBody(held.key, iv, RecordForm), 32)
    /\ UNCHANGED <<vaults, vaultAccess, txns, tabs, localToken, otherKeys>>
    /\ UNCHANGED <<authFrame, wire, httpVars, restVars>>

\* ---- PATCH /vaults/:id ------------------------------------------------
PatchBodies(vaultId) ==
    {[name |-> <<>>, encryptedUserId |-> <<>>]}
    \cup {[name |-> <<n>>, encryptedUserId |-> <<>>] : n \in VaultNames}
    \cup {[name |-> <<>>,
           encryptedUserId |->
               <<encryptUserId(idToString(Me),
                     deriveKey(m, vaults[vaultId].master_password_salt), iv)>>] :
              m \in MasterPasswords, iv \in RandomIvs}

\* database.ts updateVault: the row after SET of the fields that are given
updateVault(row, data) ==
    [row EXCEPT
        !.name = IF data.name = <<>> THEN @ ELSE data.name[1],
        !.encrypted_user_id =
            IF data.encryptedUserId = <<>> THEN @ ELSE data.encryptedUserId[1]]

PatchVault(vaultId, body) ==
    /\ IF Me = 0
       THEN /\ lastResp' = VaultResp("vaults/:id", 401, "Unauthorized")
            /\ UNCHANGED vaults
       ELSE IF ownerAccess(vaultId, Me) = {}
       THEN /\ lastResp' = [VaultResp("vaults/:id", 403, "Access denied")
                               EXCEPT !.uid = Me]
            /\ UNCHANGED vaults
       ELSE IF body.name = <<>> /\ body.encryptedUserId = <<>>
       THEN /\ lastResp' = [VaultResp("vaults/:id", 500,
                                      "Internal Server Error")
                               EXCEPT !.uid = Me]
            /\ UNCHANGED vaults
       ELSE \* the UPDATE waits for a row lock held by a transaction
            /\ ~VaultLocked(vaultId, {})
            /\ vaults' = [vaults EXCEPT ![vaultId] = updateVault(@, body)]
            /\ lastResp' = [VaultResp("vaults/:id", 200, NULL)
                               EXCEPT !.uid = Me]
    /\ UNCHANGED <<vaultAccess, passwords, nextPassword, txns, tabs,
                   localToken, otherKeys>>
    /\ UNCHANGED <<authFrame, wire, httpVars, restVars>>

\* ---- vault routes a caller reaches without the page -------------------
MaxVaults == 1

\* the ids a caller may name: those of the vaults and one of no vault
VaultIds == 1..(Len(vaults) + 1)

\* a 200 response that carries data read from the vault
VaultData(route, body) ==
    [route |-> route, username |-> NULL, status |-> 200, error |-> NULL,
     server_proof |-> FALSE, token |-> 0, requires_2fa |-> FALSE,
     temp_token |-> 0, uid |-> Me, body |-> body]

\* GET /vaults/:id/verify
GetVerify(vaultId) ==
    /\ lastResp' =
         IF Me = 0
         THEN VaultResp("vaults/:id/verify", 401, "Unauthorized")
         ELSE IF getVaultAccess(vaultId, Me) = {}
         THEN [VaultResp("vaults/:id/verify", 403, "Access denied")
                  EXCEPT !.uid = Me]
         ELSE IF getVault(vaultId) = <<>>
         THEN [VaultResp("vaults/:id/verify", 404, "Vault not found")
                  EXCEPT !.uid = Me]
         ELSE VaultData("vaults/:id/verify",
                  [encryptedUserId |-> getVault(vaultId)[1].encrypted_user_id])
    /\ UNCHANGED <<authFrame, storeVars, wire, httpVars, restVars>>

\* GET /vaults/:id/passwords
GetPasswords(vaultId) ==
    /\ lastResp' =
         IF Me = 0
         THEN VaultResp("vaults/:id/passwords", 401, "Unauthorized")
         ELSE IF getVaultAccess(vaultId, Me) = {}
         THEN [VaultResp("vaults/:id/passwords", 403, "Access denied")
                  EXCEPT !.uid = Me]
         ELSE VaultData("vaults/:id/passwords",
                  ListResponse(passwords, vaultId))
    /\ UNCHANGED <<authFrame, storeVars, wire, httpVars, restVars>>

\* DELETE /vaults/:id/passwords/:passwordId
\* a DELETE that selects the row by its id alone
deletePasswordById(table, id, vaultId) == {r \in table : r.id # id}

\* database.ts deletePassword: DELETE FROM passwords WHERE id = $1 AND
\* vault_id = $2
deletePassword(table, id, vaultId) ==
    {r \in table : ~(r.id = id /\ r.vault_id = vaultId)}

DeletePassword(vaultId, passwordId) ==
    /\ IF Me = 0
       THEN /\ lastResp' = VaultResp("delete password", 401, "Unauthorized")
            /\ UNCHANGED passwords
       ELSE IF getVaultAccess(vaultId, Me) = {}
       THEN /\ lastResp' = [VaultResp("delete password", 403,
                                      "Access denied") EXCEPT !.uid = Me]
            /\ UNCHANGED passwords
       ELSE \* the DELETE waits for a row lock held by a transaction
            /\ passwordId \in {r.id : r \in RowsOf(vaultId)}
                  => ~RecordLocked(passwordId, {})
            /\ passwords' = deletePassword(passwords, passwordId, vaultId)
            /\ lastResp' =
                  IF passwords' = passwords     \* rowCount is not 1
                  THEN [VaultResp("delete password", 404,
                                  "Password not found") EXCEPT !.uid = Me]
                  ELSE [VaultResp("delete password", 200, NULL)
                           EXCEPT !.uid = Me]
    /\ UNCHANGED <<vaults, vaultAccess, nextPassword, txns, tabs, localToken,
                   otherKeys>>
    /\ UNCHANGED <<authFrame, wire, httpVars, restVars>>

\* DELETE /vaults/:id and database.ts deleteVault; vault_access and
\* passwords rows go with the vault (ON DELETE CASCADE)
DeleteVault(vaultId) ==
    /\ IF Me = 0
       THEN /\ lastResp' = VaultResp("delete vault", 401, "Unauthorized")
            /\ UNCHANGED <<vaults, vaultAccess, passwords>>
       ELSE IF ownerAccess(vaultId, Me) = {}
       THEN /\ lastResp' = [VaultResp("delete vault", 403,
                                "Only the owner can delete a vault")
                               EXCEPT !.uid = Me]
            /\ UNCHANGED <<vaults, vaultAccess, passwords>>
       ELSE \* the DELETE waits for a row lock held by a transaction
            /\ ~VaultLocked(vaultId, {})
            /\ vaults' = [vaults EXCEPT ![vaultId] = DeletedVault]
            /\ vaultAccess' = {a \in vaultAccess : a.vault_id # vaultId}
            /\ passwords' = {r \in passwords : r.vault_id # vaultId}
            /\ lastResp' = [VaultResp("delete vault", 200, NULL)
                               EXCEPT !.uid = Me]
    /\ UNCHANGED <<nextPassword, txns, tabs, localToken, otherKeys>>
    /\ UNCHANGED <<authFrame, wire, httpVars, restVars>>

\* bodies a caller who has not the vault's records can send to
\* POST /vaults/:id/update-master-password
ApiRotationBodies ==
    {[encryptedUserId |->
          encryptUserId(idToString(Me), deriveKey(m, salt), iv),
      passwords |-> <<>>] :
        m \in MasterPasswords, salt \in VaultSalts, iv \in RandomIvs}

\* bodies that list a record id, whichever vault the record is in
CrossRotationBodies ==
    {[encryptedUserId |->
          encryptUserId(idToString(Me), deriveKey(m, salt), iv),
      passwords |->
          <<[id |-> id,
             encryptedData |->
                 toHex(aesEncrypt(deriveKey(m, salt), iv,
                                  stringify(RecordForm))),
             iv |-> toHex(iv)]>>] :
        m \in {"hunter23"}, salt \in VaultSalts, iv \in RandomIvs,
        id \in 1..MaxRecords}

\* POST /vaults/:id/update-master-password up to BEGIN, sent by no tab
ApiUpdateMasterPassword(vaultId, body) ==
    /\ Cardinality(txns) < MaxInflight
    /\ IF Me = 0
       THEN /\ lastResp' = VaultResp("update-master-password", 401,
                                     "Unauthorized")
            /\ UNCHANGED txns
       ELSE IF ownerAccess(vaultId, Me) = {}
       THEN /\ lastResp' = [VaultResp("update-master-password", 403,
                                "Only the owner can update master password")
                               EXCEPT !.uid = Me]
            /\ UNCHANGED txns
       ELSE /\ txns' = txns \cup
                   {[tab |-> "none", vaultId |-> vaultId, userId |-> Me,
                     body |-> body, newKey |-> NoKey, step |-> 0,
                     wVault |-> <<>>, wRecs |-> {}]}
            /\ UNCHANGED lastResp
    /\ UNCHANGED <<vaults, vaultAccess, passwords, nextPassword, tabs,
                   localToken, otherKeys>>
    /\ UNCHANGED <<authFrame, wire, httpVars, restVars>>

\* ---- vault page handleChangeMasterPassword ---------------------------

\* step 4: every listed record is decrypted with the current key and
\* encrypted again under the new key with a fresh iv
ReEncrypted(list, currentKey, newKey, ivs) ==
    [i \in 1..Len(list) |->
        [id |-> list[i].id,
         encryptedData |->
             toHex(aesEncrypt(newKey, ivs[i],
                       fromHex(list[i].encryptedData).plaintext)),
         iv |-> toHex(ivs[i])]]

\* a step 4 that skips the records it cannot decrypt
AllDecryptSkipped(list, key) == TRUE

\* step 4 completes: decipher.final() throws for no record of the list
AllDecrypt(list, key) ==
    \A i \in 1..Len(list) :
        aesDecrypts(key, fromHex(list[i].iv), fromHex(list[i].encryptedData))

\* the request body of POST /vaults/:id/update-master-password
RotationBody(userId, list, currentKey, newKey, iv, ivs) ==
    [encryptedUserId |-> encryptUserId(idToString(userId), newKey, iv),
     passwords |-> ReEncrypted(list, currentKey, newKey, ivs)]

\* the page's steps 1-5 and the handler up to BEGIN
ClientChangeMasterPassword(tab, currentPassword, newPassword, iv, ivs) ==
    LET page == tabs[tab]
        currentKey == deriveKey(currentPassword, page.salt)
        newKey == deriveKey(newPassword, page.salt)
        body == RotationBody(Me, page.passwords, currentKey, newKey, iv,
                             ivs)
    IN
    /\ page.key # NoKey
    /\ ~Busy(tab)
    /\ IF Me = 0
       THEN /\ lastResp' = VaultResp("me", 401, "Unauthorized")
            /\ UNCHANGED txns
       ELSE IF \/ ~verifyEncryptedUserId(page.encryptedUserId,
                                         idToString(Me), currentKey)
               \/ ~AllDecrypt(page.passwords, currentKey)
       THEN \* thrown in the page before any request to the vault routes
            /\ lastResp' = [VaultResp("me", 200, NULL) EXCEPT !.uid = Me]
            /\ UNCHANGED txns
       ELSE IF ownerAccess(page.vaultId, Me) = {}
       THEN /\ lastResp' = [VaultResp("update-master-password", 403,
                                "Only the owner can update master password")
                               EXCEPT !.uid = Me]
            /\ UNCHANGED txns
       ELSE \* BEGIN
            /\ txns' = txns \cup
                   {[tab |-> tab, vaultId |-> page.vaultId, userId |-> Me,
                     body |-> body, newKey |-> newKey, step |-> 0,
                     wVault |-> <<>>, wRecs |-> {}]}
            /\ UNCHANGED lastResp
    /\ UNCHANGED <<vaults, vaultAccess, passwords, nextPassword, tabs,
                   localToken, otherKeys>>
    /\ UNCHANGED <<authFrame, wire, httpVars, restVars>>

\* ---- database.ts updateMasterPassword, inside the transaction --------

\* catch: ROLLBACK, rethrow; the route answers 500
Rollback(t) ==
    /\ txns' = txns \ {t}
    /\ lastResp' = [VaultResp("update-master-password", 500,
                              "Internal Server Error")
                       EXCEPT !.uid = t.userId]
    /\ UNCHANGED <<vaults, passwords, tabs>>

\* UPDATE vaults SET encrypted_user_id = $1 WHERE id = $2
TxnUpdateVault(t) ==
    /\ t \in txns
    /\ t.step = 0
    /\ ~VaultLocked(t.vaultId, {t})
    /\ txns' = (txns \ {t}) \cup
           {[t EXCEPT !.step = 1, !.wVault = <<t.body.encryptedUserId>>]}
    /\ vaults' = UncommittedVisible(vaults,
           [vaults EXCEPT ![t.vaultId].encrypted_user_id =
                              t.body.encryptedUserId])
    /\ UNCHANGED <<passwords, tabs, lastResp>>
    /\ UNCHANGED <<vaultAccess, nextPassword, localToken, otherKeys>>
    /\ UNCHANGED <<authFrame, wire, httpVars, restVars>>

\* UPDATE passwords SET data = $1, iv = $2 WHERE id = $3 AND vault_id = $4
\* for the next password of the list
TxnUpdatePassword(t) ==
    /\ t \in txns
    /\ t.step >= 1
    /\ t.step <= Len(t.body.passwords)
    /\ LET password == t.body.passwords[t.step]
           write == [id |-> password.id, vault_id |-> t.vaultId,
                     data |-> fromHex(password.encryptedData),
                     iv |-> password.iv]
       IN  IF \E r \in RowsOf(t.vaultId) : r.id = password.id
           THEN /\ ~RecordLocked(password.id, {t})
                /\ txns' = (txns \ {t}) \cup
                       {[t EXCEPT !.step = @ + 1,
                                  !.wRecs = @ \cup {write}]}
                /\ passwords' = UncommittedVisible(passwords,
                       ApplyWrites(passwords, {write}))
                /\ UNCHANGED <<vaults, tabs, lastResp>>
           ELSE \* no row matches: the statement updates nothing
                /\ txns' = (txns \ {t}) \cup {[t EXCEPT !.step = @ + 1]}
                /\ UNCHANGED <<vaults, passwords, tabs, lastResp>>
    /\ UNCHANGED <<vaultAccess, nextPassword, localToken, otherKeys>>
    /\ UNCHANGED <<authFrame, wire, httpVars, restVars>>

\* COMMIT, the 200 response, and the page's step 6
TxnCommit(t) ==
    /\ t \in txns
    /\ t.step = Len(t.body.passwords) + 1
    /\ txns' = txns \ {t}
    /\ vaults' = IF Deleted(vaults[t.vaultId]) THEN vaults
                 ELSE [vaults EXCEPT
                          ![t.vaultId].encrypted_user_id = t.wVault[1]]
    /\ passwords' = ApplyWrites(passwords, t.wRecs)
    /\ tabs' = [tabs EXCEPT
           ![t.tab].passwords =
               [i \in 1..Len(t.body.passwords) |->
                   [id |-> t.body.passwords[i].id,
                    encryptedData |-> t.body.passwords[i].encryptedData,
                    iv |-> t.body.passwords[i].iv]],
           ![t.tab].key = t.newKey,
           ![t.tab].decryptedData =
               DecryptedIds(t.newKey, t.body.passwords)]
    /\ lastResp' = [VaultResp("update-master-password", 200, NULL)
                       EXCEPT !.uid = t.userId]
    /\ UNCHANGED <<vaultAccess, nextPassword, localToken, otherKeys>>
    /\ UNCHANGED <<authFrame, wire, httpVars, restVars>>

\* a query of the transaction throws (a value longer than its VARCHAR(1000)
\* column, which the route does not check, the connection lost, a
\* statement timeout): catch, ROLLBACK
TxnError(t) ==
    /\ t \in txns
    /\ Rollback(t)
    /\ UNCHANGED <<vaultAccess, nextPassword, localToken, otherKeys>>
    /\ UNCHANGED <<authFrame, wire, httpVars, restVars>>

\* ======================================================================
\* The requests the client puts on the wire
\* ======================================================================

\* ---- bounds ----------------------------------------------------------
MaxWire == 2          \* client operations whose requests are kept

\* ---- what a recipient without keys reads in a value -------------------
\* a value on the wire is a term [op, val, args]: a text, or an operation
\* applied to terms
Text(s) == [op |-> "text", val |-> s, args |-> <<>>]
Apply(op, args) == [op |-> op, val |-> "", args |-> args]

\* encodings anyone can undo
Transparent == {"hex", "json", "concat"}

RECURSIVE Readable(_)
Readable(t) ==
    {t} \cup (IF t.op \in Transparent
              THEN UNION {Readable(t.args[i]) : i \in 1..Len(t.args)}
              ELSE {})

\* ---- JSON.stringify of the values the client sends --------------------
wireNumber(n) == Text(ToString(n))
wireStrengthened(x) == Apply("pbkdf2-sha256", <<Text(x[2]), Text(x[3])>>)
wireVerifier(v) == Apply("srp-verifier", <<wireStrengthened(v[2])>>)
wireProof(proof) ==
    Apply("srp-proof", <<Text(proof.I), Text(proof.s), Text(proof.A),
                         wireVerifier(proof.K.v)>>)
wireKey(key) == Apply("pbkdf2-sha512", <<Text(key[2]), Text(key[3])>>)
wireJson(json) ==
    Apply("json", <<Text(json[2].username), Text(json[2].website),
                    Text(json[2].password), Text(json[2].totpSecret),
                    Text(json[2].notes)>>)
wireIv(hex) == Apply("hex", <<Text(fromHex(hex))>>)
wireRecordData(hex) ==
    Apply("hex", <<Apply("aes-256-cbc",
                       <<wireKey(fromHex(hex).key), Text(fromHex(hex).iv),
                         wireJson(fromHex(hex).plaintext)>>)>>)
wireEncryptedUserId(e) ==
    Apply("concat",
          <<wireIv(e.ivHex),
            Apply("hex", <<Apply("aes-256-cbc",
                <<wireKey(fromHex(e.encryptedHex).key),
                  Text(fromHex(e.encryptedHex).iv),
                  wireNumber(fromHex(e.encryptedHex).plaintext[2])>>)>>)>>)

\* ---- requests ---------------------------------------------------------
Part(in, name, value) == [in |-> in, name |-> name, value |-> value]
Bearer(token) == Part("header", "Authorization", wireNumber(token))
Request(method, route, parts) ==
    [method |-> method, route |-> route, parts |-> parts]

\* layout.tsx handleSubmit: POST /auth/register
RegisterRequests(username, password, salt) ==
    <<Request("POST", "/auth/register",
        <<Part("body", "username", Text(username)),
          Part("body", "srp_salt", Text(salt)),
          Part("body", "srp_verifier",
               wireVerifier(deriveVerifier(pbkdf2Derive(password, salt))))>>)>>

\* login/page.tsx handleSubmit: POST /auth/srp-challenge, POST /auth/login
LoginRequests(username, password, A, challenge) ==
    LET body == ClientLoginBody(username, A, challenge, password, 64)
    IN  <<Request("POST", "/auth/srp-challenge",
            <<Part("body", "username", Text(username))>>),
          Request("POST", "/auth/login",
            <<Part("body", "username", Text(body.username)),
              Part("body", "client_public_key", Text(body.client_public_key)),
              Part("body", "client_proof", wireProof(body.client_proof))>>)>>

\* settings/page.tsx handlePasswordUpdate: PUT /auth/password
PasswordUpdateRequests(token, newPassword, salt) ==
    <<Request("PUT", "/auth/password",
        <<Bearer(token),
          Part("body", "srp_salt", Text(salt)),
          Part("body", "srp_verifier",
               wireVerifier(deriveVerifier(pbkdf2Derive(newPassword, salt))))>>)>>

MeRequest(token) == Request("GET", "/auth/me", <<Bearer(token)>>)

ListRequest(token, vaultId) ==
    Request("GET", "/vaults/:id/passwords",
            <<Bearer(token), Part("url", "id", wireNumber(vaultId))>>)

\* vaults/page.tsx handleSubmitVault: GET /auth/me, POST /vaults
CreateVaultRequests(token, userId, name, master, salt, iv) ==
    <<MeRequest(token),
      Request("POST", "/vaults",
        <<Bearer(token),
          Part("body", "name", Text(name)),
          Part("body", "salt", Text(salt)),
          Part("body", "encryptedUserId",
               wireEncryptedUserId(
                   encryptUserId(idToString(userId),
                                 deriveKey(master, salt), iv)))>>)>>

\* vault page handleUnlock, verifyAndLoadPasswords: the master password and
\* the key stay in the page
UnlockRequests(token, vaultId) ==
    <<MeRequest(token), ListRequest(token, vaultId)>>

\* PasswordForm.tsx fetchSiteMeta: POST /api/metadata/fetch
MetadataRequest(token, url) ==
    Request("POST", "/api/metadata/fetch",
            <<Bearer(token), Part("body", "url", Text(url))>>)

\* PasswordForm.tsx handleSubmit, then vault page handleSavePassword:
\* the metadata lookup, POST or PUT of the record, GET of the list
SaveRequests(token, vaultId, id, data, key, iv) ==
    LET body == SaveBody(key, iv, data)
        idPart == IF id = 0 THEN <<>>
                  ELSE <<Part("url", "passwordId", wireNumber(id))>>
    IN  <<MetadataRequest(token, data.website),
          Request(IF id = 0 THEN "POST" ELSE "PUT",
                  IF id = 0 THEN "/vaults/:id/passwords"
                  ELSE "/vaults/:id/passwords/:passwordId",
            <<Bearer(token), Part("url", "id", wireNumber(vaultId))>>
            \o idPart \o
            <<Part("body", "encryptedData", wireRecordData(body.encryptedData)),
              Part("body", "iv", wireIv(body.iv))>>),
          ListRequest(token, vaultId)>>

\* the record list a page holds: n records under one key
HeldList(n, key, iv, data) ==
    [i \in 1..n |->
        [id |-> i, encryptedData |-> SaveBody(key, iv, data).encryptedData,
         iv |-> SaveBody(key, iv, data).iv]]

RECURSIVE RecordParts(_, _)
RecordParts(records, i) ==
    IF i > Len(records) THEN <<>>
    ELSE <<Part("body", "passwords.id", wireNumber(records[i].id)),
           Part("body", "passwords.encryptedData",
                wireRecordData(records[i].encryptedData)),
           Part("body", "passwords.iv", wireIv(records[i].iv))>>
         \o RecordParts(records, i + 1)

\* vault page handleChangeMasterPassword: GET /auth/me,
\* POST /vaults/:id/update-master-password
RotateRequests(token, userId, vaultId, list, currentKey, newKey, iv) ==
    LET body == RotationBody(userId, list, currentKey, newKey, iv,
                             [i \in 1..Len(list) |-> iv])
    IN  <<MeRequest(token),
          Request("POST", "/vaults/:id/update-master-password",
            <<Bearer(token), Part("url", "id", wireNumber(vaultId)),
              Part("body", "encryptedUserId",
                   wireEncryptedUserId(body.encryptedUserId))>>
            \o RecordParts(body.passwords, 1))>>

\* ---- the client operations, as far as the wire shows them -------------
Send(operation, requests) ==
    /\ wire' = Append(wire, [operation |-> operation, requests |-> requests])
    /\ UNCHANGED <<authVars, storeVars, httpVars, restVars>>

WireRegister(username, password, salt) ==
    /\ Len(wire) < MaxWire
    /\ Send("register", RegisterRequests(username, password, salt))

WireLogin(username, password, A, salt, account) ==
    /\ Len(wire) < MaxWire
    /\ Send("login",
         LoginRequests(username, password, A,
             [salt |-> salt,
              server_public_key |->
                  generateEphemeral(
                      deriveVerifier(pbkdf2Derive(account, salt)), 1).public]))

WirePasswordUpdate(token, newPassword, salt) ==
    /\ Len(wire) < MaxWire
    /\ Send("change account password",
         PasswordUpdateRequests(token, newPassword, salt))

WireCreateVault(token, name, master, salt, iv) ==
    /\ Len(wire) < MaxWire
    /\ Send("create vault", CreateVaultRequests(token, token, name, master,
                                             salt, iv))

WireUnlock(token, vaultId) ==
    /\ Len(wire) < MaxWire
    /\ Send("unlock", UnlockRequests(token, vaultId))

WireSave(token, id, data, master, salt, iv) ==
    /\ Len(wire) < MaxWire
    /\ Send("save record",
         SaveRequests(token, 1, id, data, deriveKey(master, salt), iv))

WireRotate(token, n, data, current, new, salt, iv) ==
    /\ Len(wire) < MaxWire
    /\ Send("rotate master password",
         RotateRequests(token, token, 1,
             HeldList(n, deriveKey(current, salt), iv, data),
             deriveKey(current, salt), deriveKey(new, salt), iv))

\* ======================================================================
\* Bearer authentication of requests (middleware/auth.ts, config/server.ts)
\* ======================================================================

\* ---- bounds ----------------------------------------------------------
MaxNow == 3           \* weeks the database clock runs

\* ---- input alphabets -------------------------------------------------
Connections == {"conn1"}     \* each carries one request at a time

\* ---- routes -----------------------------------------------------------
\* request.routeOptions.url as its path segments; "/" is <<>>
PublicRoutes ==
    {[method |-> "POST", url |-> <<"auth", "register">>],
     [method |-> "POST", url |-> <<"auth", "srp-challenge">>],
     [method |-> "POST", url |-> <<"auth", "login">>],
     [method |-> "POST", url |-> <<"auth", "verify-2fa">>],
     [method |-> "GET", url |-> <<"api", "metadata", "icon">>],
     [method |-> "GET", url |-> <<"health">>],
     [method |-> "GET", url |-> <<"documentation">>]}

LoginRoutes == {[method |-> "POST", url |-> <<"auth", "login">>]}

SessionRoutes ==
    {[method |-> "GET", url |-> <<"auth", "me">>],
     [method |-> "POST", url |-> <<"auth", "logout">>],
     [method |-> "DELETE", url |-> <<"auth", "sessions", ":id">>],
     [method |-> "DELETE", url |-> <<"auth", "sessions">>]}

\* String.prototype.includes on the path: the segments of part occur in
\* url one after the other
includes(url, part) ==
    \E i \in 0..(Len(url) - Len(part)) :
        SubSeq(url, i + 1, i + Len(part)) = part

\* authMiddleware, "Skip auth for public routes"
skipsAuth(url) ==
    \/ includes(url, <<"auth", "login">>)
    \/ includes(url, <<"auth", "register">>)
    \/ includes(url, <<"auth", "verify-2fa">>)
    \/ includes(url, <<"auth", "srp-challenge">>)
    \/ includes(url, <<"documentation">>)
    \/ url = <<>>
    \/ includes(url, <<"health">>)
    \/ includes(url, <<"api", "metadata", "icon">>)

\* the stored session a bearer token belongs to, if its expiry time has
\* not passed
LiveSessions(token) ==
    {s \in sessions : s.token = token /\ s.expires_at > now}

HttpInit ==
    /\ reqs = {}
    /\ served = [token |-> 0, outcome |-> "none"]

\* a request arrives; token 0 is a request without Authorization header,
\* any other token is one the server has issued (48 random bytes are not
\* guessed before they are issued)
Arrive(conn, route, token, param) ==
    /\ \A q \in reqs : q.conn # conn
    /\ token < nextSession
    /\ param < nextSession
    /\ route \in PublicRoutes => token = 0
    /\ route.url = <<"auth", "sessions", ":id">> <=> param # 0
    /\ reqs' = reqs \cup
          {[conn |-> conn, method |-> route.method, url |-> route.url,
            token |-> token,
            param |-> param, phase |-> "onRequest",
            live |-> LiveSessions(token) # {}, user |-> 0]}
    /\ UNCHANGED <<served, authVars, storeVars, wire, restVars>>

\* the onRequest hook: return for a public route, otherwise look the
\* session and its user up and reply 401 when there is none
OnRequest(r) ==
    /\ r \in reqs
    /\ r.phase = "onRequest"
    /\ IF skipsAuth(r.url)
       THEN /\ reqs' = (reqs \ {r}) \cup {[r EXCEPT !.phase = "handler"]}
            /\ UNCHANGED <<served, lastResp>>
       ELSE IF r.token = 0 \/ authMiddleware(r.token) = 0
       THEN /\ reqs' = reqs \ {r}
            /\ served' = [token |-> r.token, outcome |-> "401"]
            /\ lastResp' = Resp("onRequest", NULL, 401, "Unauthorized")
       ELSE /\ reqs' = (reqs \ {r}) \cup
                   {[r EXCEPT !.phase = "handler",
                              !.user = authMiddleware(r.token)]}
            /\ UNCHANGED <<served, lastResp>>
    /\ UNCHANGED <<authFrame, storeVars, wire, restVars>>

\* DELETE FROM user_sessions WHERE id = $1 AND user_id = $2
deleteSession(table, id, userId) ==
    {s \in table : ~(s.id = id /\ s.user_id = userId)}

\* DELETE FROM user_sessions WHERE user_id = $2 AND id != $1
deleteOtherSessions(table, currentId, userId) ==
    {s \in table : ~(s.user_id = userId /\ s.id # currentId)}

\* a test that takes no session for the current one
IsCurrentNever(session, sessionId) == FALSE

\* `currentSession?.id === sessionId`
IsCurrent(session, sessionId) == session.id = sessionId

\* the route handlers that end sessions, and GET /auth/me
HandleSession(r) ==
    /\ r \in reqs
    /\ r.phase = "handler"
    /\ ~skipsAuth(r.url)
    /\ LET current == getUserSession(r.token)
           route == IF r.url = <<"auth", "me">> THEN "me"
                    ELSE IF r.url = <<"auth", "logout">> THEN "logout"
                    ELSE "sessions"
       IN  IF r.url = <<"auth", "me">>
           THEN /\ lastResp' = [Resp(route, NULL, 200, NULL)
                                   EXCEPT !.uid = r.user]
                /\ UNCHANGED sessions
           ELSE IF current = {}
           THEN /\ lastResp' =
                     IF r.url = <<"auth", "logout">>
                     THEN Resp(route, NULL, 404, "Session not found")
                     ELSE IF r.url = <<"auth", "sessions">>
                     THEN Resp(route, NULL, 500, "Internal Server Error")
                     ELSE IF deleteSession(sessions, r.param, r.user)
                              = sessions
                     THEN Resp(route, NULL, 404, "Session not found")
                     ELSE [Resp(route, NULL, 200, NULL) EXCEPT !.uid = r.user]
                /\ sessions' = IF r.url = <<"auth", "sessions", ":id">>
                               THEN deleteSession(sessions, r.param, r.user)
                               ELSE sessions
           ELSE LET session == CHOOSE s \in current : TRUE
                IN  IF r.url = <<"auth", "logout">>
                    THEN /\ sessions' =
                              deleteSession(sessions, session.id, r.user)
                         /\ lastResp' = [Resp(route, NULL, 200, NULL)
                                            EXCEPT !.uid = r.user]
                    ELSE IF r.url = <<"auth", "sessions">>
                    THEN /\ sessions' =
                              deleteOtherSessions(sessions, session.id, r.user)
                         /\ lastResp' = [Resp(route, NULL, 200, NULL)
                                            EXCEPT !.uid = r.user]
                    ELSE IF IsCurrent(session, r.param)
                    THEN /\ lastResp' =
                              Resp(route, NULL, 400,
                                   "Cannot delete current session")
                         /\ UNCHANGED sessions
                    ELSE /\ sessions' =
                              deleteSession(sessions, r.param, r.user)
                         /\ lastResp' =
                              IF sessions' = sessions
                              THEN Resp(route, NULL, 404, "Session not found")
                              ELSE [Resp(route, NULL, 200, NULL)
                                       EXCEPT !.uid = r.user]
    /\ reqs' = reqs \ {r}
    /\ served' = [token |-> r.token, outcome |-> "handler"]
    /\ UNCHANGED <<users, nextSession, srpSessions, issued, tempTokens,
                   nextTemp, loginReqs, verifyReqs, now, consumed>>
    /\ UNCHANGED <<storeVars, wire, restVars>>

\* the handler of POST /auth/register
HandleRegister(r, username, password, salt) ==
    /\ r \in reqs
    /\ r.phase = "handler"
    /\ r.url = <<"auth", "register">>
    /\ Register(username, password, salt)
    /\ reqs' = reqs \ {r}
    /\ served' = [token |-> r.token, outcome |-> "handler"]
    /\ UNCHANGED <<storeVars, wire, restVars>>

\* the handlers of POST /auth/login and POST /auth/verify-2fa when the
\* caller has authenticated as userId: db.createSession and the token
HandleLogin(r, userId) ==
    /\ r \in reqs
    /\ r.phase = "handler"
    /\ r.url \in {<<"auth", "login">>, <<"auth", "verify-2fa">>}
    /\ userId \in 1..Len(users)
    /\ nextSession <= MaxSessions
    /\ sessions' = sessions \cup {NewSessionRow(userId, nextSession)}
    /\ nextSession' = nextSession + 1
    /\ lastResp' = [Resp("login", users[userId].username, 200, NULL)
                       EXCEPT !.token = nextSession, !.uid = userId]
    /\ reqs' = reqs \ {r}
    /\ served' = [token |-> r.token, outcome |-> "handler"]
    /\ UNCHANGED <<users, srpSessions, issued, tempTokens, nextTemp,
                   loginReqs, verifyReqs, now, consumed>>
    /\ UNCHANGED <<storeVars, wire, restVars>>

\* the handlers of the public routes when they create no session
HandlePublic(r) ==
    /\ r \in reqs
    /\ r.phase = "handler"
    /\ skipsAuth(r.url)
    /\ reqs' = reqs \ {r}
    /\ served' = [token |-> r.token, outcome |-> "handler"]
    /\ UNCHANGED <<authVars, storeVars, wire, restVars>>

\* the database clock advances by a week
Tick ==
    /\ now < MaxNow
    /\ now' = now + 1
    /\ UNCHANGED <<users, sessions, nextSession, srpSessions, issued,
                   tempTokens, nextTemp, loginReqs, verifyReqs, lastResp,
                   consumed>>
    /\ UNCHANGED <<storeVars, wire, httpVars, restVars>>

\* database.ts cleanupExpiredSessions, run at start and every 24 hours
cleanupExpiredSessions ==
    /\ sessions' = {s \in sessions : ~(s.expires_at < now)}
    /\ UNCHANGED <<users, nextSession, srpSessions, issued, tempTokens,
                   nextTemp, loginReqs, verifyReqs, now, lastResp, consumed>>
    /\ UNCHANGED <<storeVars, wire, httpVars, restVars>>

\* ---- specifications ---------------------------------------------------
WireInit == wire = <<>>

ClockInit == clock = 0 /\ nameReqs = {}

Init == AuthInit /\ StoreInit /\ WireInit /\ HttpInit /\ ClockInit

\* a step of the authentication server changes nothing else
AuthOnly == UNCHANGED <<storeVars, wire, httpVars, restVars>>

\* the authentication server
Next ==
    \/ \E u \in RegisterNames, p \in AccountPasswords, s \in SrpSalts :
          Register(u, p, s) /\ AuthOnly
    \/ \E u \in Usernames : SrpChallenge(u) /\ AuthOnly
    \/ \E body \in LoginBodies :
          LoginStart(body) /\ AuthOnly
    \/ \E r \in loginReqs : LoginVerify(r) /\ AuthOnly
    \/ \E t \in 1..MaxTempTokens, c \in TotpCodes :
          VerifyStart(t, c) /\ AuthOnly
    \/ \E r \in verifyReqs : VerifyFinish(r) /\ AuthOnly
    \/ \E b \in 1..MaxSessions, s \in TotpSecrets, c \in TotpCodes :
          Enable2FA(b, s, c) /\ AuthOnly
    \/ \E b \in 1..MaxSessions, c \in TotpCodes :
          Disable2FA(b, c) /\ AuthOnly

Spec == Init /\ [][Next]_vars

\* the vault storage under the browser's tabs
NextVault ==
    \/ \E u \in Usernames, p \in AccountPasswords, s \in SrpSalts :
          ClientRegister(u, p, s)
    \/ \E n \in VaultNames, m \in MasterPasswords, s \in VaultSalts,
          iv \in RandomIvs, len \in FieldLengths :
          ClientCreateVault(n, m, s, iv, len)
    \/ \E tab \in Tabs, v \in 1..Len(vaults) : ClientLoadVault(tab, v)
    \/ \E tab \in Tabs, m \in MasterPasswords : ClientUnlock(tab, m)
    \/ \E tab \in Tabs : ClientLock(tab)
    \/ \E tab \in Tabs, id \in 0..MaxRecords, iv \in RandomIvs,
          len \in FieldLengths : ClientSavePassword(tab, id, iv, len)
    \/ \E v \in 1..Len(vaults), m \in MasterPasswords : OtherTabUnlock(v, m)
    \/ \E held \in otherKeys, id \in 0..MaxRecords, iv \in RandomIvs :
          OtherTabSavePassword(held, id, iv)
    \/ \E v \in 1..Len(vaults) : \E body \in PatchBodies(v) :
          PatchVault(v, body)
    \/ \E tab \in Tabs, c \in MasterPasswords, n \in MasterPasswords,
          iv \in RandomIvs :
          \E ivs \in [1..Len(tabs[tab].passwords) -> RandomIvs] :
             ClientChangeMasterPassword(tab, c, n, iv, ivs)
    \/ \E t \in txns : TxnUpdateVault(t)
    \/ \E t \in txns : TxnUpdatePassword(t)
    \/ \E t \in txns : TxnCommit(t)
    \/ \E t \in txns : TxnError(t)

SpecVault == Init /\ [][NextVault]_vars

\* one page of the owner: unlock, lock, save, change of master password
NextRotate ==
    \/ \E u \in RegisterNames, p \in AccountPasswords, s \in SrpSalts :
          ClientRegister(u, p, s)
    \/ \E n \in VaultNames, m \in MasterPasswords, s \in VaultSalts,
          iv \in RandomIvs : ClientCreateVault(n, m, s, iv, 32)
    \/ \E tab \in Tabs, v \in 1..Len(vaults) : ClientLoadVault(tab, v)
    \/ \E tab \in Tabs, m \in MasterPasswords : ClientUnlock(tab, m)
    \/ \E tab \in Tabs : ClientLock(tab)
    \/ \E tab \in Tabs, id \in 0..MaxRecords, iv \in RandomIvs :
          ClientSavePassword(tab, id, iv, 32)
    \/ \E tab \in Tabs, c \in MasterPasswords, n \in MasterPasswords,
          iv \in RandomIvs :
          \E ivs \in [1..Len(tabs[tab].passwords) -> RandomIvs] :
             ClientChangeMasterPassword(tab, c, n, iv, ivs)
    \/ \E t \in txns : TxnUpdateVault(t)
    \/ \E t \in txns : TxnUpdatePassword(t)
    \/ \E t \in txns : TxnCommit(t)

SpecRotate == Init /\ [][NextRotate]_vars

\* two accounts with a vault each, and requests to a vault that name ids
\* of records of the other vault
NextCross ==
    \/ \E u \in Usernames, p \in AccountPasswords, s \in SrpSalts :
          ClientRegister(u, p, s)
    \/ \E n \in VaultNames, s \in TwoVaultSalts, iv \in RandomIvs :
          ClientCreateVault(n, "hunter22", s, iv, 32)
    \/ \E v \in 1..Len(vaults) : OtherTabUnlock(v, "hunter22")
    \/ \E held \in otherKeys, id \in 0..MaxRecords, iv \in RandomIvs :
          OtherTabSavePassword(held, id, iv)
    \/ \E v \in 1..Len(vaults), id \in 1..MaxRecords :
          DeletePassword(v, id)
    \/ \E v \in 1..Len(vaults), body \in CrossRotationBodies :
          ApiUpdateMasterPassword(v, body)
    \/ \E t \in txns : TxnUpdateVault(t)
    \/ \E t \in txns : TxnUpdatePassword(t)
    \/ \E t \in txns : TxnCommit(t)

SpecCross == Init /\ [][NextCross]_vars

\* one page of the owner, locked at any time
NextLock ==
    \/ \E u \in RegisterNames, p \in AccountPasswords, s \in SrpSalts :
          ClientRegister(u, p, s)
    \/ \E n \in VaultNames, m \in MasterPasswords, s \in VaultSalts,
          iv \in RandomIvs : ClientCreateVault(n, m, s, iv, 32)
    \/ \E tab \in Tabs, v \in 1..Len(vaults) : ClientLoadVault(tab, v)
    \/ \E tab \in Tabs, m \in MasterPasswords : ClientUnlock(tab, m)
    \/ \E tab \in Tabs : handleLockVault(tab)
    \/ \E tab \in Tabs, id \in 0..MaxRecords, iv \in RandomIvs :
          ClientSavePassword(tab, id, iv, 32)
    \/ \E tab \in Tabs, c \in MasterPasswords, n \in MasterPasswords,
          iv \in RandomIvs :
          \E ivs \in [1..Len(tabs[tab].passwords) -> RandomIvs] :
             ClientChangeMasterPassword(tab, c, n, iv, ivs)
    \/ \E t \in txns : TxnUpdateVault(t)
    \/ \E t \in txns : TxnUpdatePassword(t)
    \/ \E t \in txns : TxnCommit(t)

SpecLock == Init /\ [][NextLock]_vars

\* one page of the owner while time passes
NextAutoLock ==
    \/ \E u \in RegisterNames, p \in AccountPasswords, s \in SrpSalts :
          ClientRegister(u, p, s)
    \/ \E n \in VaultNames, m \in MasterPasswords, s \in VaultSalts,
          iv \in RandomIvs : ClientCreateVault(n, m, s, iv, 32)
    \/ \E tab \in Tabs, v \in 1..Len(vaults) : ClientLoadVault(tab, v)
    \/ \E tab \in Tabs, m \in MasterPasswords : ClientUnlock(tab, m)
    \/ \E tab \in Tabs : ClientLock(tab)
    \/ \E tab \in Tabs : PageActivity(tab)
    \/ \E tab \in Tabs : OpenSettings(tab)
    \/ \E tab \in Tabs : CloseSettings(tab)
    \/ \E tab \in Tabs : MinutePasses(tab)
    \/ \E tab \in Tabs : checkAutoLock(tab)

SpecAutoLock == Init /\ [][NextAutoLock]_vars

\* the requests of the client operations
NextWire ==
    \/ \E u \in Usernames, p \in AccountPasswords, s \in SrpSalts :
          WireRegister(u, p, s)
    \/ \E u \in Usernames, p \in LoginPasswords, A \in ClientEphemerals,
          s \in SrpSalts, account \in AccountPasswords :
          WireLogin(u, p, A, s, account)
    \/ \E token \in 1..MaxSessions, p \in LoginPasswords, s \in SrpSalts :
          WirePasswordUpdate(token, p, s)
    \/ \E token \in 1..MaxSessions, n \in VaultNames, m \in MasterPasswords,
          s \in VaultSalts, iv \in RandomIvs :
          WireCreateVault(token, n, m, s, iv)
    \/ \E token \in 1..MaxSessions : WireUnlock(token, 1)
    \/ \E token \in 1..MaxSessions, id \in 0..MaxRecords, data \in RecordForms,
          m \in MasterPasswords, s \in VaultSalts, iv \in RandomIvs :
          WireSave(token, id, data, m, s, iv)
    \/ \E token \in 1..MaxSessions, n \in 0..MaxRecords, data \in RecordForms,
          c \in MasterPasswords, m \in MasterPasswords, s \in VaultSalts,
          iv \in RandomIvs :
          WireRotate(token, n, data, c, m, s, iv)

SpecWire == Init /\ [][NextWire]_vars

\* the server's bearer authentication
NextSessions ==
    \/ \E conn \in Connections, route \in PublicRoutes \cup SessionRoutes,
          token \in 0..MaxSessions, param \in 0..MaxSessions :
          Arrive(conn, route, token, param)
    \/ \E r \in reqs : OnRequest(r)
    \/ \E r \in reqs : HandleSession(r)
    \/ \E r \in reqs, u \in RegisterNames, p \in AccountPasswords,
          s \in SrpSalts : HandleRegister(r, u, p, s)
    \/ \E r \in reqs, userId \in 1..Len(users) : HandleLogin(r, userId)
    \/ \E r \in reqs : HandlePublic(r)
    \/ Tick
    \/ cleanupExpiredSessions

SpecSessions == Init /\ [][NextSessions]_vars

\* two accounts, one of them with two sessions, and the routes that end
\* sessions
NextRevoke ==
    \/ \E u \in Usernames, p \in AccountPasswords, s \in SrpSalts :
          RegisterUpTo(u, p, s, MaxLoginSessions) /\ AuthOnly
    \/ \E conn \in Connections, route \in LoginRoutes :
          Arrive(conn, route, 0, 0)
    \/ \E r \in reqs, userId \in 1..Len(users) : HandleLogin(r, userId)
    \/ \E conn \in Connections, route \in SessionRoutes,
          token \in 1..MaxLoginSessions, param \in 0..MaxLoginSessions :
          Arrive(conn, route, token, param)
    \/ \E r \in reqs : OnRequest(r)
    \/ \E r \in reqs : HandleSession(r)
    \/ Tick

SpecRevoke == Init /\ [][NextRevoke]_vars

\* the SRP handshake while the clock runs
NextHandshake ==
    \/ \E u \in RegisterNames, p \in AccountPasswords, s \in SrpSalts :
          Register(u, p, s) /\ AuthOnly
    \/ \E u \in Usernames : SrpChallenge(u) /\ AuthOnly
    \/ \E body \in LoginBodies : LoginStart(body) /\ AuthOnly
    \/ \E r \in loginReqs : LoginVerify(r) /\ AuthOnly
    \/ Tick

SpecHandshake == Init /\ [][NextHandshake]_vars

\* the second factor of a login while the server process's clock runs
NextSecondFactor ==
    \/ \E u \in RegisterNames, p \in AccountPasswords, s \in SrpSalts :
          Register(u, p, s) /\ AuthOnly
    \/ \E u \in RegisterNames : SrpChallenge(u) /\ AuthOnly
    \/ \E body \in LoginBodies : LoginStart(body) /\ AuthOnly
    \/ \E r \in loginReqs : LoginVerify(r) /\ AuthOnly
    \/ \E t \in 1..MaxTempTokens, c \in TotpCodes :
          VerifyStart(t, c) /\ AuthOnly
    \/ \E r \in verifyReqs : VerifyFinish(r) /\ AuthOnly
    \/ \E b \in 1..MaxSessions, s \in TotpSecrets, c \in TotpCodes :
          Enable2FA(b, s, c) /\ AuthOnly
    \/ TickClock

SpecSecondFactor == Init /\ [][NextSecondFactor]_vars

\* switching the second factor on and off, two accounts, two authenticators
NextTotp ==
    \/ \E u \in Usernames, p \in AccountPasswords, s \in SrpSalts :
          Register(u, p, s) /\ AuthOnly
    \/ \E b \in 1..MaxSessions, s \in TwoTotpSecrets, c \in TwoTotpCodes :
          Enable2FA(b, s, c) /\ AuthOnly
    \/ \E b \in 1..MaxSessions, c \in TwoTotpCodes :
          Disable2FA(b, c) /\ AuthOnly

SpecTotp == Init /\ [][NextTotp]_vars

\* the second step of a login, two requests in flight at a time
NextTempOnce ==
    \/ \E u \in RegisterNames, p \in AccountPasswords, s \in SrpSalts :
          Register(u, p, s) /\ AuthOnly
    \/ \E b \in 1..MaxSessions, s \in TotpSecrets, c \in TotpCodes :
          Enable2FA(b, s, c) /\ AuthOnly
    \/ \E u \in RegisterNames : SrpChallenge(u) /\ AuthOnly
    \/ \E body \in LoginBodies : LoginStart(body) /\ AuthOnly
    \/ \E r \in loginReqs : LoginVerify(r) /\ AuthOnly
    \/ \E t \in 1..MaxTempTokens, c \in TotpCodes :
          VerifyArrive(t, c, MaxConcurrent) /\ AuthOnly
    \/ \E r \in verifyReqs : VerifyComplete(r, MaxLoginSessions) /\ AuthOnly

SpecTempOnce == Init /\ [][NextTempOnce]_vars

\* the login of routes/users.ts, two requests in flight at a time
NextOneShot ==
    \/ \E u \in RegisterNames, p \in AccountPasswords, s \in SrpSalts :
          Register(u, p, s) /\ AuthOnly
    \/ \E u \in RegisterNames : SrpChallenge(u) /\ AuthOnly
    \/ \E body \in LoginBodies : LoginArrive(body, MaxConcurrent) /\ AuthOnly
    \/ \E r \in loginReqs : LoginDerive(r) /\ AuthOnly
    \/ \E r \in loginReqs : LoginReply(r) /\ AuthOnly

SpecOneShot == Init /\ [][NextOneShot]_vars

\* records of every form saved, listed and decrypted by one page
NextRoundTrip ==
    \/ \E u \in RegisterNames, p \in AccountPasswords, s \in SrpSalts :
          ClientRegister(u, p, s)
    \/ \E n \in VaultNames, m \in MasterPasswords, s \in VaultSalts,
          iv \in RandomIvs : ClientCreateVault(n, m, s, iv, 32)
    \/ \E tab \in Tabs, v \in 1..Len(vaults) : ClientLoadVault(tab, v)
    \/ \E tab \in Tabs, m \in MasterPasswords : ClientUnlock(tab, m)
    \/ \E tab \in Tabs : ClientLock(tab)
    \/ \E tab \in Tabs, id \in 0..MaxRecords, iv \in RandomIvs,
          len \in FieldLengths, data \in RecordForms :
          ClientSaveForm(tab, id, iv, len, data)

SpecRoundTrip == Init /\ [][NextRoundTrip]_vars

\* the vault routes as two accounts of one browser call them
NextAcl ==
    \/ \E u \in Usernames, p \in AccountPasswords, s \in SrpSalts :
          ClientRegister(u, p, s)
    \/ \E n \in VaultNames, s \in VaultSalts, iv \in RandomIvs :
          Len(vaults) < MaxVaults /\ ClientCreateVault(n, "hunter22", s, iv, 32)
    \/ \E tab \in Tabs, v \in VaultIds : ClientLoadVault(tab, v)
    \/ \E tab \in Tabs, m \in MasterPasswords : ClientUnlock(tab, m)
    \/ \E tab \in Tabs, id \in 0..MaxRecords, iv \in RandomIvs,
          len \in FieldLengths : ClientSavePassword(tab, id, iv, len)
    \/ \E v \in 1..Len(vaults) : \E body \in PatchBodies(v) :
          PatchVault(v, body)
    \/ \E v \in VaultIds : GetVerify(v)
    \/ \E v \in VaultIds : GetPasswords(v)
    \/ \E v \in VaultIds, id \in 1..MaxRecords : DeletePassword(v, id)
    \/ \E v \in VaultIds : DeleteVault(v)
    \/ \E v \in VaultIds, body \in ApiRotationBodies :
          ApiUpdateMasterPassword(v, body)
    \/ \E t \in txns : TxnUpdateVault(t)
    \/ \E t \in txns : TxnCommit(t)
    \/ \E t \in txns : TxnError(t)

SpecAcl == Init /\ [][NextAcl]_vars

\* logins around a change of the account password
NextPassword ==
    \/ \E u \in RegisterNames, p \in AccountPasswords, s \in SrpSalts :
          Register(u, p, s) /\ AuthOnly
    \/ \E u \in RegisterNames : SrpChallenge(u) /\ AuthOnly
    \/ \E body \in PasswordLoginBodies : LoginStart(body) /\ AuthOnly
    \/ \E r \in loginReqs : LoginVerify(r) /\ AuthOnly
    \/ \E b \in 1..MaxSessions, p \in NewPasswords, s \in NewSalts,
          len \in {64, 1001} : PasswordUpdate(b, p, s, len) /\ AuthOnly

SpecPassword == Init /\ [][NextPassword]_vars

\* the settings page's password form beside logins
NextSettings ==
    \/ \E u \in RegisterNames, p \in AccountPasswords, s \in SrpSalts :
          Register(u, p, s) /\ AuthOnly
    \/ \E u \in RegisterNames : SrpChallenge(u) /\ AuthOnly
    \/ \E body \in PasswordLoginBodies : LoginStart(body) /\ AuthOnly
    \/ \E r \in loginReqs : LoginVerify(r) /\ AuthOnly
    \/ \E b \in 1..MaxSessions, cur \in LoginPasswords, p \in NewPasswords,
          s \in NewSalts : handlePasswordUpdate(b, cur, p, s) /\ AuthOnly

SpecSettings == Init /\ [][NextSettings]_vars

\* registration and change of username, requests interleaved at the awaits
NextNames ==
    \/ \E conn \in NameConnections, u \in Usernames, p \in AccountPasswords,
          s \in SrpSalts : RegisterCheck(conn, u, p, s)
    \/ \E r \in nameReqs : RegisterInsert(r)
    \/ \E conn \in NameConnections, b \in 1..MaxSessions, u \in Usernames :
          UsernameCheck(conn, b, u)
    \/ \E r \in nameReqs : UsernameWrite(r)

SpecNames == Init /\ [][NextNames]_vars

\* ======================================================================
\* Properties of the authentication server (specification Spec)
\* ======================================================================

\* the pending handshake stored for a username, as a set (empty or one)
Pending(username) == {e \in srpSessions : e.username = username}

\* the password a verifier was derived from
PasswordOf(verifier) == verifier[2][2]

\* a step in which the login request r is answered after its account lookup
LoginAnswered(r) == r \in loginReqs /\ r \notin loginReqs'

\* C1 -- every successful /auth/login response follows the TOTP secret the
\* account has stored: with a secret it carries temp_token and requires_2fa,
\* no session token, and no session row exists for it; without a secret it
\* carries a session token and no temp_token -- also when /auth/2fa/enable
\* or /auth/2fa/disable for the account runs while the login is in flight.
C1_Original ==
    (lastResp.route = "login" /\ lastResp.status = 200) =>
        IF users[lastResp.uid].totp_secret # NULL
        THEN /\ lastResp.requires_2fa
             /\ lastResp.temp_token # 0
             /\ lastResp.token = 0
        ELSE /\ lastResp.token # 0
             /\ lastResp.temp_token = 0
             /\ ~lastResp.requires_2fa

\* C5 -- /auth/login gives out a session token, a temp token or a server
\* proof, and creates a session or pending 2FA record, only when the client
\* proof is the one expected for the account's stored salt and verifier and
\* the server ephemeral of the pending handshake; a proof derived from a
\* password other than the account's gets none of them.
C5_ProofGate ==
    [][\A r \in loginReqs :
          LoginAnswered(r) =>
            LET account == users[r.uid]
                gave == \/ lastResp'.token # 0
                        \/ lastResp'.temp_token # 0
                        \/ lastResp'.server_proof
                        \/ sessions' # sessions
                        \/ tempTokens' # tempTokens
            IN  /\ gave =>
                     \E e \in Pending(r.body.username) :
                        r.body.client_proof =
                            ExpectedProof(e.serverPrivateKey,
                                r.body.client_public_key, account.srp_salt,
                                r.body.username, account.srp_verifier)
                /\ PasswordOf(r.body.client_proof.K.v)
                        # PasswordOf(account.srp_verifier) => ~gave
    ]_vars

\* a wrong-password proof has just been refused against a pending handshake,
\* after an earlier login with the right password had obtained a session
C5_Witness ==
    /\ lastResp.route = "login"
    /\ lastResp.status = 401
    /\ lastResp.error = "Invalid credentials"
    /\ lastResp.uid # 0
    /\ \E b \in consumed :
          PasswordOf(b.client_proof.K.v) # PasswordOf(users[lastResp.uid].srp_verifier)
    /\ \E row \in sessions : row.id > 1

\* C6 -- for an account that has a TOTP secret, every session the login flow
\* creates comes from a /auth/verify-2fa call whose temp token maps to a
\* live pending record of that account and whose code is valid for the
\* secret stored on the account.
C6_Original ==
    [][\A row \in sessions' \ sessions :
          (/\ lastResp'.route \in {"login", "verify-2fa"}
           /\ users[row.user_id].totp_secret # NULL)
          => \E r \in verifyReqs :
                /\ r \notin verifyReqs'
                /\ r.userId = row.user_id
                /\ \E e \in tempTokens :
                      e.token = r.temp_token /\ e.userId = row.user_id
                /\ authenticatorVerify(r.totp_code,
                                       users[row.user_id].totp_secret)
    ]_vars

\* C7 -- what a caller sees from /auth/srp-challenge and from a failed
\* /auth/login for a registered username is what it sees for a username
\* that is not registered: 401 with error 'Invalid credentials'.
C7_Original ==
    (/\ lastResp.route \in {"srp-challenge", "login"}
     /\ lastResp.uid # 0
     /\ lastResp.token = 0 /\ lastResp.temp_token = 0)
    => (lastResp.status = 401 /\ lastResp.error = "Invalid credentials")

\* C9 -- a /auth/login that repeats the body of a login which used up the
\* pending handshake, with no new challenge in between, fails with 401
\* 'Invalid credentials' and creates no session and no pending 2FA record.
C9_Original ==
    [][\A r \in loginReqs :
          (LoginAnswered(r) /\ r.body \in consumed) =>
            /\ lastResp'.status = 401
            /\ lastResp'.error = "Invalid credentials"
            /\ sessions' = sessions
            /\ tempTokens' = tempTokens
    ]_vars

\* C10 (as stated) -- after every failed /auth/login for a username no
\* pending handshake for that username remains stored.
C10_Original ==
    (lastResp.route = "login" /\ lastResp.status >= 400) =>
        Pending(lastResp.username) = {}

\* C10 -- after every /auth/login that found the account and then failed (no
\* pending handshake, or a proof that does not verify) no pending handshake
\* for the username remains, and every login that reaches the proof check
\* removes the handshake it checked against, so a challenge admits at most
\* one proof attempt.
C10_FailedLoginClearsHandshake ==
    /\ [](( /\ lastResp.route = "login"
            /\ lastResp.status = 401
            /\ lastResp.uid # 0) => Pending(lastResp.username) = {})
    /\ [][\A r \in loginReqs :
            (LoginAnswered(r) /\ Pending(r.body.username) # {}) =>
                /\ srpSessions' = srpSessions \ Pending(r.body.username)
                /\ consumed' = Consume(r.body)
       ]_vars

\* a proof has just been refused, the handshake it was checked against is
\* gone, and the challenge that created it had been issued
C10_Witness ==
    /\ lastResp.route = "login"
    /\ lastResp.status = 401
    /\ lastResp.error = "Invalid credentials"
    /\ lastResp.uid # 0
    /\ consumed # {}
    /\ Pending(lastResp.username) = {}
    /\ \E i \in 1..Len(issued) : issued[i].username = lastResp.username

\* the challenges answered for a username, by their position in issued
IssuedFor(username) ==
    {i \in 1..Len(issued) : issued[i].username = username}

\* the challenge answered last for a username (0 when there is none)
LastIssued(username) ==
    IF IssuedFor(username) = {} THEN 0
    ELSE CHOOSE i \in IssuedFor(username) : \A j \in IssuedFor(username) : j <= i

\* C11 -- there is at most one pending handshake per username, and it is the
\* one of the challenge answered last for that username; a login whose proof
\* was computed against the server public key of an earlier challenge is
\* rejected and gives out nothing, and a login whose proof was computed from
\* the account's password against the server public key of the last
\* challenge, while its handshake is pending, is accepted.
C11_LatestChallengeOnly ==
    /\ [](\A u \in Usernames :
            /\ Cardinality(Pending(u)) <= 1
            /\ \A e \in Pending(u) : e.serverPrivateKey = LastIssued(u))
    /\ [][\A r \in loginReqs :
            LoginAnswered(r) =>
              LET u == r.body.username
                  last == LastIssued(u)
              IN  /\ (last # 0 /\ r.body.client_proof.K.b # last) =>
                        /\ lastResp'.status = 401
                        /\ lastResp'.token = 0
                        /\ lastResp'.temp_token = 0
                        /\ sessions' = sessions
                        /\ tempTokens' = tempTokens
                  /\ (/\ Pending(u) # {}
                      /\ r.body.client_proof =
                            ClientDeriveSession(r.body.client_public_key,
                                issued[last].server_public_key,
                                users[r.uid].srp_salt, u,
                                pbkdf2Derive(
                                    PasswordOf(users[r.uid].srp_verifier),
                                    users[r.uid].srp_salt)).proof) =>
                        /\ lastResp'.status = 200
                        /\ lastResp'.server_proof
       ]_vars

\* two challenges were answered for one username, and a login whose proof
\* was computed from the right password against the first of them has just
\* been rejected
C11_Witness ==
    /\ lastResp.route = "login"
    /\ lastResp.status = 401
    /\ lastResp.uid # 0
    /\ Cardinality(IssuedFor(lastResp.username)) = 2
    /\ \E b \in consumed :
          /\ b.username = lastResp.username
          /\ b.client_proof.K.b = 1
          /\ PasswordOf(b.client_proof.K.v)
                = PasswordOf(users[lastResp.uid].srp_verifier)

\* the time since the challenge answered last for a username
HandshakeAge(username) == now - issued[LastIssued(username)].at

\* C12 (as stated) -- a pending handshake is TTL-bound: a login that
\* accesses a handshake whose challenge was answered a week or more ago
\* (longer than any short TTL) is rejected, gives out nothing, and leaves no
\* handshake for the username.
C12_Original ==
    [][\A r \in loginReqs :
          (/\ LoginAnswered(r)
           /\ Pending(r.body.username) # {}
           /\ HandshakeAge(r.body.username) >= 1) =>
              /\ lastResp'.status = 401
              /\ lastResp'.token = 0
              /\ lastResp'.temp_token = 0
              /\ sessions' = sessions
              /\ Pending(r.body.username)' = {}
    ]_vars

\* a step in which the verify-2fa request r is answered
VerifyAnswered(r) == r \in verifyReqs /\ r \notin verifyReqs'

\* the temp-token entries a verify-2fa call names
Named(temp_token) == {e \in tempTokens : e.token = temp_token}

\* C13 (as stated) -- a /auth/verify-2fa call that arrives more than
\* expireAfter (5 minutes) after its temp token was issued finds no pending
\* record: it is answered 401 'Invalid or expired token' at once and is never
\* taken on to the code check, whether or not the sweep has run since.
C13_Original ==
    [][\A t \in 1..MaxTempTokens :
          (\E e \in Named(t) : clock - e.at > expireAfter)
          => ~\E r \in verifyReqs' \ verifyReqs : r.temp_token = t
    ]_vars

C15_CodeGatesSecret ==
    [][/\ \A b \in 1..MaxSessions, s \in TwoTotpSecrets, c \in TwoTotpCodes :
            Enable2FA(b, s, c) =>
              IF c = TotpCode(s)
              THEN /\ users' = [users EXCEPT
                                  ![authMiddleware(b)].totp_secret = s]
                   /\ lastResp'.status = 200
              ELSE /\ users' = users
                   /\ lastResp'.status = 400
       /\ \A b \in 1..MaxSessions, c \in TwoTotpCodes :
            Disable2FA(b, c) =>
              LET stored == users[authMiddleware(b)].totp_secret
              IN  IF stored # NULL /\ c = TotpCode(stored)
                  THEN /\ users' = [users EXCEPT
                                      ![authMiddleware(b)].totp_secret = NULL]
                       /\ lastResp'.status = 200
                  ELSE /\ users' = users
                       /\ lastResp'.status = 400
    ]_vars

\* a disable with the code of another authenticator than the stored one has
\* just been refused: the account still has its secret, and the other
\* account has none
C15_Witness ==
    /\ lastResp.route = "2fa/disable"
    /\ lastResp.status = 400
    /\ lastResp.error = "Invalid verification code"
    /\ users[lastResp.uid].totp_secret # NULL
    /\ \E i \in 1..Len(users) : users[i].totp_secret = NULL

\* the salt a verifier was derived under
SaltOf(verifier) == verifier[2][3]

\* C17 -- salt and verifier of an account change together: the stored row,
\* the row a login has read and the salt and server public key a challenge
\* gave out always pair a verifier with the salt it was derived under; and a
\* login that reads the account after a change of password is rejected and
\* given nothing when its proof derives from another password than the one
\* now stored, and accepted when its proof derives from the stored password
\* against the pending challenge given out for the stored credentials.
C17_CredentialsChangeTogether ==
    /\ [](/\ \A i \in 1..Len(users) :
                SaltOf(users[i].srp_verifier) = users[i].srp_salt
          /\ \A r \in loginReqs :
                SaltOf(r.user.srp_verifier) = r.user.srp_salt
          /\ \A i \in 1..Len(issued) :
                SaltOf(issued[i].server_public_key[3]) = issued[i].salt)
    /\ [][\A r \in loginReqs :
            (LoginAnswered(r) /\ r.user = users[r.uid]) =>
              LET u == r.body.username
                  last == LastIssued(u)
                  stored == users[r.uid]
              IN  /\ PasswordOf(r.body.client_proof.K.v)
                        # PasswordOf(stored.srp_verifier) =>
                        /\ lastResp'.status = 401
                        /\ lastResp'.token = 0
                        /\ lastResp'.temp_token = 0
                        /\ sessions' = sessions
                        /\ tempTokens' = tempTokens
                  /\ (/\ Pending(u) # {}
                      /\ issued[last].salt = stored.srp_salt
                      /\ issued[last].server_public_key[3]
                            = stored.srp_verifier
                      /\ r.body.client_proof =
                            ClientDeriveSession(r.body.client_public_key,
                                issued[last].server_public_key,
                                issued[last].salt, u,
                                pbkdf2Derive(
                                    PasswordOf(stored.srp_verifier),
                                    issued[last].salt)).proof) =>
                        /\ lastResp'.status = 200
                        /\ lastResp'.server_proof
       ]_vars

\* the password was changed after a challenge under the old credentials, and
\* a login with the new password has just been accepted
C17_Witness ==
    /\ lastResp.route = "login"
    /\ lastResp.status = 200
    /\ lastResp.uid # 0
    /\ PasswordOf(users[lastResp.uid].srp_verifier) \in NewPasswords
    /\ \E i \in 1..Len(issued) : issued[i].salt \in SrpSalts

\* C22 -- one issued challenge yields at most one successful login: beside
\* the session each registration creates there are never more sessions
\* than challenges issued, also when two logins carrying the same valid
\* proof are in flight together.
C22_Original == Cardinality(sessions) <= Len(users) + Len(issued)

\* C23 -- a temp token yields at most one session: a verify-2fa request is
\* answered with a session token only while its temp token is still
\* stored, so once one request has used the token up, no request in flight
\* beside it and no repetition of it creates a second session.
C23_Original ==
    [][\A r \in verifyReqs :
          /\ r \notin verifyReqs'
          /\ lastResp'.token # 0
          => \E e \in tempTokens : e.token = r.temp_token
    ]_vars

\* C24 -- once an account has a TOTP secret, the secret is changed or
\* cleared only by a request that carries a code valid for the stored
\* secret; a bearer session with a code for a new secret does not replace
\* it.
C24_Original ==
    [][\A uid \in 1..Len(users) :
          /\ users[uid].totp_secret # NULL
          /\ users'[uid].totp_secret # users[uid].totp_secret
          => \E b \in 1..MaxSessions, c \in TwoTotpCodes :
                /\ authenticatorVerify(c, users[uid].totp_secret)
                /\ \/ Disable2FA(b, c)
                   \/ \E sec \in TwoTotpSecrets : Enable2FA(b, sec, c)
    ]_vars

\* C25 -- the account password (salt and verifier) is replaced only by a
\* caller who has shown knowledge of the current password: a submission of
\* the password form whose current-password field is not the password the
\* stored verifier was derived from leaves the credentials as they are.
C25_Original ==
    [][\A b \in 1..MaxSessions, cur \in LoginPasswords, p \in NewPasswords,
         s \in NewSalts :
          /\ handlePasswordUpdate(b, cur, p, s)
          /\ cur # PasswordOf(users[authMiddleware(b)].srp_verifier)
          => users' = users
    ]_vars

\* C26 -- after a change of master password from p to p', every later
\* unlock succeeds with p' and is rejected with p, also on the page that
\* made the change once it has been locked: an unlock of a locked page by
\* a user with access succeeds exactly when the typed password opens the
\* verification token the vault has on the server.
C26_Original ==
    [][\A tab \in Tabs, m \in MasterPasswords :
          /\ ClientUnlock(tab, m)
          /\ tabs[tab].key = NoKey
          /\ Me # 0
          /\ getVaultAccess(tabs[tab].vaultId, Me) # {}
          => (tabs'[tab].key # NoKey
                <=> verifyEncryptedUserId(
                        vaults[tabs[tab].vaultId].encrypted_user_id,
                        idToString(Me),
                        deriveKey(m, tabs[tab].salt)))
    ]_vars

OthersKept(vaultId) ==
    /\ \A r \in passwords : r.vault_id # vaultId => r \in passwords'
    /\ \A r \in passwords' : r.vault_id # vaultId => r \in passwords

\* C28 -- a request addressed to vault A (record update, record delete,
\* or a master-password rotation listing record ids) modifies and deletes
\* no record of another vault, also when it names the id of a record of a
\* vault the caller has no access to.
C28_VaultScoped ==
    [][/\ \A v \in 1..Len(vaults), id \in 1..MaxRecords :
             DeletePassword(v, id) => OthersKept(v)
       /\ \A held \in otherKeys, id \in 0..MaxRecords, iv \in RandomIvs :
             OtherTabSavePassword(held, id, iv) => OthersKept(held.vaultId)
       /\ \A t \in txns :
             TxnUpdatePassword(t) \/ TxnCommit(t) => OthersKept(t.vaultId)
    ]_vars

\* a delete addressed to the caller's vault has just been answered 404
\* while every id it can have named is that of a record in a vault the
\* caller has no access to
C28_Witness ==
    /\ lastResp.route = "delete password"
    /\ lastResp.status = 404
    /\ \E v \in 1..Len(vaults) : getVaultAccess(v, lastResp.uid) # {}
    /\ \A id \in 1..MaxRecords :
          \E r \in passwords :
             r.id = id /\ getVaultAccess(r.vault_id, lastResp.uid) = {}

\* C29 -- whenever the vault page is in the Locked state it holds no vault
\* key and no decrypted record data, also when the lock occurs while a
\* request of the page is in flight and the response arrives afterwards.
C29_Original ==
    \A tab \in Tabs :
        tabs[tab].isUnlocking =>
            /\ tabs[tab].key = NoKey
            /\ tabs[tab].decryptedData = {}

\* C30 -- an unlocked vault that sees no user activity for the auto-lock
\* timeout of 5 minutes is locked, in every state of the page's interface
\* including while the settings view is open: no unlocked page has been
\* without input for more than the timeout.
C30_Original ==
    \A tab \in Tabs :
        tabs[tab].loaded /\ ~tabs[tab].isUnlocking
            => tabs[tab].idle <= TIMEOUT_MINUTES

\* C16 -- in every reachable state no two accounts have the same username,
\* also when register and username-change requests for one name are
\* processed concurrently.
C16_Original ==
    \A i, j \in 1..Len(users) :
        i # j => users[i].username # users[j].username

\* the token a page holds does not decrypt to the caller's id under the key
TokenCheckFails(page, key) ==
    LET encrypted == fromHex(page.encryptedUserId.encryptedHex)
    IN  \/ encrypted.key # key
        \/ encrypted.iv # fromHex(page.encryptedUserId.ivHex)
        \/ encrypted.plaintext # idToString(Me)

\* C19 -- an unlock whose derived key fails the check of the verification
\* token ends with the answer of GET /auth/me: the page sends no request
\* for the records, and it keeps its record list and its key as they were,
\* so a locked vault stays locked; and a page only ever goes from locked to
\* unlocked with a key that passes the check of the token it holds.
C19_VerifyBeforeFetch ==
    [][\A tab \in Tabs :
          /\ \A m \in MasterPasswords :
                (/\ ClientUnlock(tab, m)
                 /\ Me # 0
                 /\ TokenCheckFails(tabs[tab],
                        deriveKey(m, tabs[tab].salt))) =>
                    /\ lastResp'.route = "me"
                    /\ tabs' = tabs
                    /\ UNCHANGED <<vaults, vaultAccess, passwords,
                                   nextPassword, txns>>
          /\ (tabs[tab].key = NoKey /\ tabs'[tab].key # NoKey) =>
                /\ ~TokenCheckFails(tabs[tab], tabs'[tab].key)
                /\ lastResp'.route = "passwords"
    ]_vars

\* a locked page has just ended an unlock at the answer of GET /auth/me,
\* while its vault holds records
C19_Witness ==
    \E tab \in Tabs :
        /\ tabs[tab].loaded
        /\ tabs[tab].key = NoKey
        /\ tabs[tab].passwords = <<>>
        /\ lastResp.route = "me"
        /\ lastResp.status = 200
        /\ RowsOf(tabs[tab].vaultId) # {}

\* some record of the list does not decrypt under the key
SomeRecordFails(list, key) ==
    \E i \in 1..Len(list) :
        \/ fromHex(list[i].encryptedData).key # key
        \/ fromHex(list[i].encryptedData).iv # fromHex(list[i].iv)

\* C20 -- a change of master password whose current password fails the
\* check of the verification token, or under whose key some record of the
\* page does not decrypt, ends before any request to the vault routes and
\* leaves the tables unchanged; and the request to update-master-password
\* is only ever sent with a current key that passes the check and decrypts
\* every record of the page, carrying each of these records, with its
\* plaintext, encrypted under the new key.
C20_RotateAfterChecks ==
    [][\A tab \in Tabs :
          /\ \A c \in MasterPasswords, n \in MasterPasswords,
                iv \in RandomIvs,
                ivs \in [1..Len(tabs[tab].passwords) -> RandomIvs] :
                (/\ ClientChangeMasterPassword(tab, c, n, iv, ivs)
                 /\ Me # 0
                 /\ \/ TokenCheckFails(tabs[tab],
                            deriveKey(c, tabs[tab].salt))
                    \/ SomeRecordFails(tabs[tab].passwords,
                            deriveKey(c, tabs[tab].salt))) =>
                    /\ txns' = txns
                    /\ lastResp'.route = "me"
                    /\ UNCHANGED <<vaults, vaultAccess, passwords,
                                   nextPassword, tabs>>
          /\ \A t \in txns' \ txns :
                (t.tab = tab /\ t.step = 0) =>
                   LET list == tabs[tab].passwords
                       sent == t.body.passwords
                   IN  /\ \E c \in MasterPasswords :
                            /\ ~TokenCheckFails(tabs[tab],
                                    deriveKey(c, tabs[tab].salt))
                            /\ ~SomeRecordFails(list,
                                    deriveKey(c, tabs[tab].salt))
                       /\ Len(sent) = Len(list)
                       /\ \A i \in 1..Len(list) :
                            /\ sent[i].id = list[i].id
                            /\ fromHex(sent[i].encryptedData).key = t.newKey
                            /\ fromHex(sent[i].encryptedData).plaintext
                                 = fromHex(list[i].encryptedData).plaintext
    ]_vars

\* a password that is not the one of the page's key passes the check of the
\* token, a record of the page does not decrypt under its key, and the
\* page's last operation has ended at the answer of GET /auth/me with no
\* request to update-master-password in flight
C20_Witness ==
    \E tab \in Tabs, c \in MasterPasswords :
        /\ tabs[tab].key # NoKey
        /\ Me # 0
        /\ ~TokenCheckFails(tabs[tab], deriveKey(c, tabs[tab].salt))
        /\ SomeRecordFails(tabs[tab].passwords, deriveKey(c, tabs[tab].salt))
        /\ c # tabs[tab].key[2]
        /\ lastResp.route = "me"
        /\ lastResp.status = 200
        /\ txns = {}

\* ======================================================================
\* Properties of saved records (specification SpecRoundTrip)
\* ======================================================================

NoAccess(v) ==
    Me # 0 /\ ~\E a \in vaultAccess : a.vault_id = v /\ a.user_id = Me

\* the caller is logged in and vault_access has no OWNER row for it
NotOwner(v) ==
    /\ Me # 0
    /\ ~\E a \in vaultAccess :
           a.vault_id = v /\ a.user_id = Me /\ a.role = "OWNER"

\* the answer is 403 and carries no data; no table and no page has changed
Denied ==
    /\ lastResp'.status = 403
    /\ "body" \notin DOMAIN lastResp'
    /\ UNCHANGED <<users, sessions, vaults, vaultAccess, passwords,
                   nextPassword, txns, tabs>>

\* C18 -- a logged-in caller without a vault_access row for a vault is
\* answered 403 by GET /vaults/:id, GET /vaults/:id/verify,
\* GET /vaults/:id/passwords, DELETE /vaults/:id/passwords/:passwordId and
\* by POST /vaults/:id/passwords and PUT /vaults/:id/passwords/:passwordId
\* (whose check of the field lengths comes first and answers 400 to an
\* oversized field); a caller without an OWNER row is answered 403 by
\* PATCH /vaults/:id, POST /vaults/:id/update-master-password and
\* DELETE /vaults/:id. Each of these answers carries no data of the vault
\* and leaves every table unchanged.
C18_AclGate ==
    [][\A v \in VaultIds :
          /\ NoAccess(v) =>
               /\ \A tab \in Tabs : ClientLoadVault(tab, v) => Denied
               /\ GetVerify(v) => Denied
               /\ GetPasswords(v) => Denied
               /\ \A id \in 1..MaxRecords : DeletePassword(v, id) => Denied
               /\ \A tab \in Tabs, id \in 0..MaxRecords, iv \in RandomIvs :
                     tabs[tab].vaultId = v =>
                       /\ ClientSavePassword(tab, id, iv, 32) => Denied
                       /\ ClientSavePassword(tab, id, iv, 1001) =>
                            /\ lastResp'.status = 400
                            /\ UNCHANGED <<vaults, vaultAccess, passwords,
                                           nextPassword, txns, tabs>>
          /\ NotOwner(v) =>
               /\ v \in 1..Len(vaults) =>
                     \A body \in PatchBodies(v) : PatchVault(v, body) => Denied
               /\ \A body \in ApiRotationBodies :
                     ApiUpdateMasterPassword(v, body) => Denied
               /\ DeleteVault(v) => Denied
    ]_vars

\* an account without access has just been refused the records of a vault
\* that holds some
C18_Witness ==
    /\ lastResp.route = "vaults/:id/passwords"
    /\ lastResp.status = 403
    /\ \E r \in passwords :
          ~\E a \in vaultAccess :
              a.vault_id = r.vault_id /\ a.user_id = lastResp.uid

\* ======================================================================
\* Properties of the vault storage (specification SpecVault)
\* ======================================================================

\* the key the verification token of a vault is encrypted under
TokenKey(vaultId) == fromHex(vaults[vaultId].encrypted_user_id.encryptedHex).key

\* the ids a request to update-master-password lists
Listed(t) == {t.body.passwords[i].id : i \in 1..Len(t.body.passwords)}

\* C2 -- update-master-password is all-or-nothing: a step of the request
\* that is not its COMMIT (owner check refused, a statement executed, a
\* statement failed, ROLLBACK) leaves the verification token and every
\* record as other requests see them unchanged; its COMMIT gives the token
\* and every listed record of the vault the values of the request in one
\* step and changes no other row.
C2_AllOrNothing ==
    [][/\ \A t \in txns :
            t \notin txns' =>
              IF t.step = Len(t.body.passwords) + 1 /\ lastResp'.status = 200
              THEN /\ vaults'[t.vaultId].encrypted_user_id =
                          t.body.encryptedUserId
                   /\ \A i \in 1..Len(t.body.passwords) :
                        \A r \in passwords' :
                          (r.id = t.body.passwords[i].id
                              /\ r.vault_id = t.vaultId)
                          => /\ r.data = fromHex(t.body.passwords[i].encryptedData)
                             /\ r.iv = t.body.passwords[i].iv
                   /\ {r \in passwords' : r.id \notin Listed(t)}
                        = {r \in passwords : r.id \notin Listed(t)}
                   /\ {r.id : r \in passwords'} = {r.id : r \in passwords}
              ELSE vaults' = vaults /\ passwords' = passwords
       /\ (/\ txns' = txns
           /\ lastResp'.route = "update-master-password"
           /\ lastResp'.status # 200)
          => (vaults' = vaults /\ passwords' = passwords)
    ]_vars

\* a rotation that listed two records has committed: the token and both
\* records are under the new key, which is not the key the vault had
C2_Witness ==
    /\ lastResp.route = "update-master-password"
    /\ lastResp.status = 200
    /\ \E tab \in Tabs :
          /\ Len(tabs[tab].passwords) = 2
          /\ tabs[tab].encryptedUserId # vaults[tabs[tab].vaultId].encrypted_user_id
          /\ TokenKey(tabs[tab].vaultId) = tabs[tab].key
          /\ \A r \in RowsOf(tabs[tab].vaultId) : r.data.key = tabs[tab].key
          /\ Cardinality(RowsOf(tabs[tab].vaultId)) = 2

\* C3 -- in every reachable state all records stored in a vault and the
\* vault's verification token are encrypted under one and the same key.
C3_Original ==
    \A v \in 1..Len(vaults) :
        \A r \in RowsOf(v) : r.data.key = TokenKey(v)

\* ======================================================================
\* Properties of the requests on the wire (specification SpecWire)
\* ======================================================================

\* what must stay in the browser: every password, every derived vault key,
\* every field of a record form
SecretTerms ==
    {Text(p) : p \in AccountPasswords \cup LoginPasswords \cup MasterPasswords}
    \cup {wireKey(deriveKey(m, s)) : m \in MasterPasswords, s \in VaultSalts}
    \cup UNION {{Text(f.username), Text(f.password), Text(f.website),
                 Text(f.totpSecret), Text(f.notes)} : f \in RecordForms}

\* the secrets a recipient reads in a request
Disclosed(request) ==
    UNION {Readable(request.parts[i].value) \cap SecretTerms :
              i \in 1..Len(request.parts)}

\* C4 -- no request of any client operation (register, login, create
\* vault, unlock, save record with its metadata lookup, rotate master
\* password, change account password) shows, in its URL, headers or body,
\* the account password, a master password, a derived vault key or a
\* plaintext field of a record.
C4_Original ==
    \A i \in 1..Len(wire) :
        \A j \in 1..Len(wire[i].requests) :
            Disclosed(wire[i].requests[j]) = {}

\* ======================================================================
\* Properties of the bearer authentication (specification SpecSessions)
\* ======================================================================

\* a request that has left the onRequest hook for its route handler
AtHandler(r) == r \in reqs /\ r.phase = "handler"

\* the bearer token belongs to a stored session whose expiry time has not
\* passed
HasLiveSession(token) == LiveSessions(token) # {}

\* C8 -- a request to a route other than registration, challenge, login,
\* 2FA verify and the icon proxy reaches its handler only if its bearer
\* token belongs to a stored session whose expiry time has not passed.
C8_Original ==
    \A r \in reqs :
        (/\ AtHandler(r)
         /\ r.url \notin {<<"auth", "register">>, <<"auth", "srp-challenge">>,
                          <<"auth", "login">>, <<"auth", "verify-2fa">>,
                          <<"api", "metadata", "icon">>})
        => HasLiveSession(r.token)

\* the routes that are served without a session
ServedWithoutSession ==
    {<<"auth", "register">>, <<"auth", "srp-challenge">>, <<"auth", "login">>,
     <<"auth", "verify-2fa">>, <<"api", "metadata", "icon">>, <<"health">>,
     <<"documentation">>, <<>>}

\* C8 -- a request to a route other than registration, challenge, login,
\* 2FA verify, the icon proxy, the health check, the documentation and "/"
\* leaves the onRequest hook for its handler only if, when the hook looks
\* the bearer token up, the token belongs to a stored session whose expiry
\* time has not passed, and is answered 401 Unauthorized otherwise; so a
\* request that arrives after its session was logged out, revoked or has
\* expired never reaches a handler, whether or not the sweep has run.
C8_BearerGate ==
    /\ [](\A r \in reqs :
            (AtHandler(r) /\ r.url \notin ServedWithoutSession)
            => r.live /\ r.user \in 1..Len(users))
    /\ [][\A r \in reqs :
            (/\ r.phase = "onRequest"
             /\ r \notin reqs'
             /\ r.url \notin ServedWithoutSession)
            => IF HasLiveSession(r.token)
               THEN \E q \in reqs' :
                       /\ q.conn = r.conn
                       /\ q.phase = "handler"
                       /\ \E s \in sessions :
                             s.token = r.token /\ s.user_id = q.user
               ELSE /\ \A q \in reqs' : q.conn # r.conn
                    /\ served' = [token |-> r.token, outcome |-> "401"]
                    /\ lastResp'.status = 401
                    /\ lastResp'.error = "Unauthorized"
                    /\ sessions' = sessions]_vars

\* a request carrying the token of a session that has expired and has not
\* been swept was answered 401, and so was not handled
C8_Witness ==
    /\ served.outcome = "401"
    /\ lastResp.status = 401
    /\ \E s \in sessions : s.token = served.token /\ s.expires_at <= now
    /\ reqs = {}

====
